---- MODULE Spec2Model ----
(***************************************************************************)
(* A model of lib/SILOptimizer/Mandatory/TFUtilities.cpp: the decoding,   *)
(* validation and canonicalization of "__tfop_" builtin instructions, the *)
(* constant resolver (getScalarOperand / getAttrOperand) and the array    *)
(* decoder (decodeArrayElements).                                          *)
(*                                                                         *)
(* The SIL function under analysis is an arena `ir` of instruction records *)
(* (a value is the index of the instruction that defines it) together with *)
(* `body`, the ordered list of the instructions the function holds.        *)
(* Strings that the code parses (builtin names) are sequences of one       *)
(* character strings; 64 bit unsigned integers are little-endian sequences *)
(* of base-256 limbs without leading zero limbs, so that the wrap-around   *)
(* of uint64_t arithmetic is computed exactly.                             *)
(***************************************************************************)
EXTENDS Integers, Sequences, FiniteSets, Bags, TLC

VARIABLES ir, body, inst, info, diags, err, ret, pc, snap, arg, res

vars == <<ir, body, inst, info, diags, err, ret, pc, snap, arg, res>>

(***************************************************************************)
(* Bounds of the model.                                                    *)
(***************************************************************************)
\* longest role list drawn for the name round trip
MaxEntries == 2
\* largest literal element count of an alloc_ref drawn for the array decoder
MaxElems == 2
\* most uses hanging off a ref_tail_addr drawn for the array decoder
MaxUses == 3
\* most scalars of a tensor literal drawn for the tensor/shape check
MaxScalars == 4
\* most dimensions of a shape drawn for the tensor/shape check
MaxDims == 2
\* most input operands of an op drawn for the pass
MaxInputs == 1
\* most attribute segments of an op drawn for the pass
MaxAttrs == 2
\* most instructions between a String struct and the end of its chain
MaxLinks == 2
\* most nested single-operand structs around a scalar
MaxWraps == 3
\* most stores to a stack slot, and most other uses of it
MaxStores == 2
MaxOthers == 2
\* the largest number of instructions that use the result of a builtin drawn
MaxUsers == 2

\* a local of the code: v is computed once, at the place the code computes
\* it, and Op is the code that follows with the local in scope
Bind(v, Op(_)) == CHOOSE r \in {Op(x) : x \in {v}} : TRUE

(***************************************************************************)
(* uint64_t and unbounded naturals, as limb sequences.                     *)
(***************************************************************************)
\* the width of uint64_t (scalarCount, numElements, index)
U64Bits == 64

LimbBase == 2^8

NumLimbs == U64Bits \div 8

RECURSIVE FromInt(_)
FromInt(n) ==
    IF n = 0 THEN <<>> ELSE <<n % LimbBase>> \o FromInt(n \div LimbBase)

\* limb k of x, 0 beyond its length
Limb(x, k) == IF k >= 1 /\ k <= Len(x) THEN x[k] ELSE 0

\* x without its leading zero limbs
Normalise(x) ==
    LET used == {k \in 1..Len(x) : x[k] # 0}
    IN  IF used = {} THEN <<>>
        ELSE SubSeq(x, 1, CHOOSE k \in used : \A j \in used : j <= k)

\* 2^k for k a multiple of 8
Pow2(k) == [i \in 1..(k \div 8) |-> 0] \o <<1>>

\* 2^k - 1 for k a multiple of 8
AllOnes(k) == [i \in 1..(k \div 8) |-> LimbBase - 1]

\* the carry into limb k of x + y: some lower limb generates a carry that
\* every limb between propagates
CarryIn(x, y, k) ==
    \E j \in 1..(k - 1) :
        /\ Limb(x, j) + Limb(y, j) >= LimbBase
        /\ \A i \in (j + 1)..(k - 1) : Limb(x, i) + Limb(y, i) = LimbBase - 1

\* the mathematical sum of two naturals
NatAdd(x, y) ==
    Normalise([k \in 1..((IF Len(x) > Len(y) THEN Len(x) ELSE Len(y)) + 1) |->
                  (Limb(x, k) + Limb(y, k) + (IF CarryIn(x, y, k) THEN 1 ELSE 0))
                      % LimbBase])

\* the sum of the values of a function to the naturals, as the size of the
\* bag that holds each argument as often as its value says
SumOf(f) == BagCardinality([d \in {e \in DOMAIN f : f[e] > 0} |-> f[d]])

\* column k of the schoolbook product: the sum of the x[i] * y[j], i + j = k + 1
Columns(x, y) ==
    [k \in 1..(Len(x) + Len(y)) |->
        SumOf([i \in {h \in 1..Len(x) : k + 1 - h \in 1..Len(y)} |->
                  x[i] * y[k + 1 - i]])]

\* one round of carries: every column keeps its low limb and takes the rest
\* of the column below
CarryRound(c) ==
    [k \in 1..(Len(c) + 1) |-> (Limb(c, k) % LimbBase) + (Limb(c, k - 1) \div LimbBase)]

\* the mathematical product of two naturals (two rounds of carries leave
\* columns below 2 * LimbBase, whose carries an addition resolves)
NatMul(x, y) ==
    LET c == CarryRound(CarryRound(Columns(x, y)))
    IN  NatAdd([k \in 1..Len(c) |-> c[k] % LimbBase],
               <<0>> \o [k \in 1..Len(c) |-> c[k] \div LimbBase])

\* the value modulo 2^64: what a uint64_t holds
Wrap64(x) == Normalise(SubSeq(x, 1, IF Len(x) < NumLimbs THEN Len(x) ELSE NumLimbs))

\* APInt::getLimitedValue(): the value, clamped to UINT64_MAX
getLimitedValue(x) == IF Len(x) > NumLimbs THEN AllOnes(U64Bits) ELSE x

\* a uint64_t small enough to be a vector index or size in the model
IsSmall(x) == Len(x) <= 1

SmallVal(x) == IF x = <<>> THEN 0 ELSE x[1]

(***************************************************************************)
(* StringRef, as sequences of characters.                                  *)
(***************************************************************************)
npos == 0 - 1

\* StringRef::find(c): the 0-based position of the first c, or npos
find(s, c) ==
    IF \E i \in 1..Len(s) : s[i] = c
    THEN (CHOOSE i \in 1..Len(s) : s[i] = c /\ \A j \in 1..(i - 1) : s[j] # c) - 1
    ELSE npos

\* StringRef::substr(start, n) with n = npos meaning "to the end"
substr(s, start, n) ==
    IF start >= Len(s) THEN <<>>
    ELSE IF n = npos \/ start + n > Len(s) THEN SubSeq(s, start + 1, Len(s))
    ELSE SubSeq(s, start + 1, start + n)

drop_front(s, n) == SubSeq(s, n + 1, Len(s))

startswith(s, p) == Len(s) >= Len(p) /\ SubSeq(s, 1, Len(p)) = p

TFOP_PREFIX == <<"_", "_", "t", "f", "o", "p", "_">>

(***************************************************************************)
(* The operand-role grammar.                                               *)
(***************************************************************************)
AttributeModifiers == {"Normal", "DType", "Tensor", "Shape", "Array", "ArrayElement"}

\* a mutant of getAttributeModifierSuffix: Array is emitted with the suffix of Shape
getAttributeModifierSuffix_ArrayAsShape(modifier) ==
    CASE modifier = "Normal" -> <<>>
      [] modifier = "DType" -> <<"$", "d", "t", "y", "p", "e">>
      [] modifier = "Tensor" -> <<"$", "t", "e", "n", "s", "o", "r">>
      [] modifier = "Shape" -> <<"$", "s", "h", "a", "p", "e">>
      [] modifier = "Array" -> <<"$", "s", "h", "a", "p", "e">>
      [] modifier = "ArrayElement" -> <<"$", "e", "l", "t">>

getAttributeModifierSuffix(modifier) ==
    CASE modifier = "Normal" -> <<>>
      [] modifier = "DType" -> <<"$", "d", "t", "y", "p", "e">>
      [] modifier = "Tensor" -> <<"$", "t", "e", "n", "s", "o", "r">>
      [] modifier = "Shape" -> <<"$", "s", "h", "a", "p", "e">>
      [] modifier = "Array" -> <<"$", "a", "r", "r", "a", "y">>
      [] modifier = "ArrayElement" -> <<"$", "e", "l", "t">>

AttributeEntry(first, second) == [first |-> first, second |-> second]

\* the loop of decodeTensorOpName that parses out the attribute names
RECURSIVE parseAttributeNames(_)
parseAttributeNames(name) ==
    IF name = <<>> THEN <<>>
    ELSE LET rest == drop_front(name, 1)
             p == find(rest, ",")
             pos == IF p = npos THEN Len(rest) ELSE p
             attrName == substr(rest, 0, pos)
         IN  <<AttributeEntry(attrName, "Normal")>> \o
             parseAttributeNames(substr(rest, pos, npos))

decodeTensorOpName(name) ==
    IF ~startswith(name, TFOP_PREFIX)
    THEN [ok |-> FALSE, opName |-> <<>>, attributes |-> <<>>]
    ELSE LET n == substr(name, Len(TFOP_PREFIX), npos)
             pos == find(n, ",")
         IN  IF pos = npos
             THEN [ok |-> TRUE, opName |-> n, attributes |-> <<>>]
             ELSE [ok |-> TRUE, opName |-> substr(n, 0, pos),
                   attributes |-> parseAttributeNames(substr(n, pos, npos))]

\* a mutant of decodeModifier: an unknown suffix is defaulted to Normal
decodeModifier_DefaultNormal(attr) ==
    LET dollarLoc == find(attr.first, "$")
        suffix == drop_front(attr.first, dollarLoc + 1)
        known == \E m \in AttributeModifiers \ {"Normal"} :
                    <<"$">> \o suffix = getAttributeModifierSuffix(m)
    IN  IF dollarLoc = npos
        THEN [ok |-> TRUE, attr |-> attr, suffix |-> <<>>]
        ELSE [ok |-> TRUE,
              attr |-> AttributeEntry(substr(attr.first, 0, dollarLoc),
                         IF known
                         THEN CHOOSE m \in AttributeModifiers \ {"Normal"} :
                                 <<"$">> \o suffix = getAttributeModifierSuffix(m)
                         ELSE "Normal"),
              suffix |-> suffix]

\* a mutant of decodeModifier: a '$' with nothing after it is taken as Normal
decodeModifier_EmptyIsNormal(attr) ==
    LET dollarLoc == find(attr.first, "$")
        suffix == drop_front(attr.first, dollarLoc + 1)
        suffixKind ==
            CASE suffix = <<"t", "e", "n", "s", "o", "r">> -> "Tensor"
              [] suffix = <<"s", "h", "a", "p", "e">> -> "Shape"
              [] suffix = <<"d", "t", "y", "p", "e">> -> "DType"
              [] suffix = <<"a", "r", "r", "a", "y">> -> "Array"
              [] suffix = <<"e", "l", "t">> -> "ArrayElement"
              [] suffix = <<>> -> "Normal"
              [] OTHER -> "invalid"
    IN  IF dollarLoc = npos
        THEN [ok |-> TRUE, attr |-> attr, suffix |-> <<>>]
        ELSE IF suffixKind = "invalid"
        THEN [ok |-> FALSE, attr |-> attr, suffix |-> suffix]
        ELSE [ok |-> TRUE,
              attr |-> AttributeEntry(substr(attr.first, 0, dollarLoc), suffixKind),
              suffix |-> suffix]

\* the suffix pass of decodeBuiltin on one attribute entry: the entry with its
\* suffix sliced off and decoded, or the offending suffix
decodeModifier(attr) ==
    LET dollarLoc == find(attr.first, "$")
        suffix == drop_front(attr.first, dollarLoc + 1)
        suffixKind ==
            CASE suffix = <<"t", "e", "n", "s", "o", "r">> -> "Tensor"
              [] suffix = <<"s", "h", "a", "p", "e">> -> "Shape"
              [] suffix = <<"d", "t", "y", "p", "e">> -> "DType"
              [] suffix = <<"a", "r", "r", "a", "y">> -> "Array"
              [] suffix = <<"e", "l", "t">> -> "ArrayElement"
              [] OTHER -> "invalid"
    IN  IF dollarLoc = npos
        THEN [ok |-> TRUE, attr |-> attr, suffix |-> <<>>]
        ELSE IF suffixKind = "invalid"
        THEN [ok |-> FALSE, attr |-> attr, suffix |-> suffix]
        ELSE [ok |-> TRUE,
              attr |-> AttributeEntry(substr(attr.first, 0, dollarLoc), suffixKind),
              suffix |-> suffix]

(***************************************************************************)
(* Types.  A SILType is its Swift type name, the name of its element or    *)
(* instance type (arrays, metatypes, TensorHandle) and whether it is an    *)
(* address.                                                                *)
(***************************************************************************)
Ty(name, elt) == [name |-> name, elt |-> elt, addr |-> FALSE]

AddrTy(name, elt) == [name |-> name, elt |-> elt, addr |-> TRUE]

\* tf::isTensorHandle(SILType)
isTensorHandle(ty) == ty.name = "TensorHandle"

\* tf::convertSwiftTypeToTF on a 64 bit target, by TF_DataType value
convertSwiftTypeToTF(tyName) ==
    CASE tyName = "Bool" -> 10
      [] tyName = "Int8" -> 6
      [] tyName = "UInt8" -> 4
      [] tyName = "Int16" -> 5
      [] tyName = "UInt16" -> 17
      [] tyName = "Int32" -> 3
      [] tyName = "UInt32" -> 22
      [] tyName = "Int64" -> 9
      [] tyName = "UInt64" -> 23
      [] tyName = "Float" -> 1
      [] tyName = "Double" -> 2
      [] tyName = "Int" -> 9
      [] tyName = "UInt" -> 23
      [] tyName = "Builtin.Word" -> 9
      [] tyName = "Builtin.Int1" -> 10
      [] tyName = "Builtin.Int8" -> 6
      [] tyName = "Builtin.Int16" -> 5
      [] tyName = "Builtin.Int32" -> 3
      [] tyName = "Builtin.Int64" -> 9
      [] tyName = "Builtin.FPIEEE16" -> 19
      [] tyName = "Builtin.FPIEEE32" -> 1
      [] tyName = "Builtin.FPIEEE64" -> 2
      [] OTHER -> 0

\* getArrayElementType: the element type name, or "" (the null Type)
getArrayElementType(ty) == IF ty.name = "Array" THEN ty.elt ELSE ""

\* APInt::getBitWidth() of a literal of the builtin integer type
getBitWidth(tyName) ==
    CASE tyName = "Builtin.Int1" -> 1
      [] tyName = "Builtin.Int8" -> 8
      [] tyName = "Builtin.Int16" -> 16
      [] tyName = "Builtin.Int32" -> 32
      [] tyName = "Builtin.Int64" -> 64
      [] tyName = "Builtin.Word" -> 64
      [] tyName = "Builtin.Int128" -> 128
      [] tyName = "Builtin.Int2048" -> 2048
      [] OTHER -> 0

(***************************************************************************)
(* Instructions and the def-use graph.                                     *)
(***************************************************************************)
\* SILValue(): the null value
NullValue == 0

\* an instruction: its kind, operands, result type, literal value (integer
\* literals), name (builtins, applies, globals, string literal encodings) and
\* the function that holds it ("f": the function under analysis, "g": the
\* static initializer of a global), and its location: "operand" for the
\* code that computes an operand, "op" for the instruction under analysis,
\* "user" for the code that uses its result
Inst(kind, ops, ty, val, name, fn) ==
    [kind |-> kind, ops |-> ops, ty |-> ty, val |-> val, name |-> name, fn |-> fn,
     loc |-> "operand"]

\* the instruction rec created with the location and debug location of
\* instruction i: B.create...(i->getLoc(), ...) and setDebugLocation
At(a, i, rec) == [rec EXCEPT !.loc = a[i].loc]

Range(s) == {s[i] : i \in 1..Len(s)}

\* dyn_cast<Kind>(v) succeeded
isa(a, v, kind) == v # NullValue /\ a[v].kind = kind

\* the uses of v by the instructions of the function, one entry per use
RECURSIVE usesBy(_, _, _)
usesBy(a, users, v) ==
    IF users = <<>> THEN <<>>
    ELSE LET u == Head(users)
             n == Cardinality({k \in 1..Len(a[u].ops) : a[u].ops[k] = v})
         IN  [i \in 1..n |-> u] \o usesBy(a, Tail(users), v)

usesIn(a, b, v) ==
    usesBy(a, SelectSeq(b, LAMBDA u : \E k \in 1..Len(a[u].ops) : a[u].ops[k] = v), v)

\* ValueBase::getSingleUserOfType<Kind>()
getSingleUserOfType(a, b, v, kind) ==
    LET us == SelectSeq(usesIn(a, b, v), LAMBDA u : a[u].kind = kind)
    IN  IF Len(us) = 1 THEN us[1] ELSE NullValue

\* ValueBase::getSingleUse(), as its user
getSingleUse(a, b, v) ==
    LET us == usesIn(a, b, v)
    IN  IF Len(us) = 1 THEN us[1] ELSE NullValue

(***************************************************************************)
(* The array decoder.                                                      *)
(***************************************************************************)
ArrayFail == [ok |-> FALSE, elements |-> <<>>, elementType |-> ""]

\* the tail elements of an object instruction: its operands after the base
\* elements (val holds the number of base elements)
getTailElements(a, obj) ==
    SubSeq(a[obj].ops, SmallVal(a[obj].val) + 1, Len(a[obj].ops))

\* the static initializer of the global a global_value refers to (val holds
\* it), when it is an object instruction; NullValue otherwise
getStaticInitializerObject(a, gv) ==
    IF a[gv].val # <<>> /\ isa(a, a[gv].val[1], "object")
    THEN a[gv].val[1] ELSE NullValue

\* the loop of decodeArrayElements that strips the wrappers off the value:
\* "alloc" with the alloc_ref it reached, "done" with the elements of a
\* static initializer or of the empty array, or "fail"
RECURSIVE stripToAllocRef(_, _)
stripToAllocRef(a, value) ==
    LET fail == [tag |-> "fail", v |-> NullValue, elements |-> <<>>]
    IN  IF isa(a, value, "alloc_ref")
        THEN [tag |-> "alloc", v |-> value, elements |-> <<>>]
        ELSE IF isa(a, value, "struct")
        THEN IF Len(a[value].ops) # 1 THEN fail
             ELSE stripToAllocRef(a, a[value].ops[1])
        ELSE IF isa(a, value, "unchecked_ref_cast") \/ isa(a, value, "upcast")
        THEN stripToAllocRef(a, a[value].ops[1])
        ELSE IF isa(a, value, "global_value")
        THEN LET init == getStaticInitializerObject(a, value)
             IN  IF init = NullValue THEN fail
                 ELSE [tag |-> "done", v |-> value,
                       elements |-> getTailElements(a, init)]
        ELSE IF isa(a, value, "raw_pointer_to_ref")
        THEN LET a2p == a[value].ops[1]
             IN  IF ~isa(a, a2p, "address_to_pointer") THEN fail
                 ELSE LET ga == a[a2p].ops[1]
                      IN  IF isa(a, ga, "global_addr") /\
                             a[ga].name = <<"_swiftEmptyArrayStorage">>
                          THEN [tag |-> "done", v |-> value, elements |-> <<>>]
                          ELSE fail
        ELSE fail

\* a mutant of scanTailUses: a second store to an index is skipped over
RECURSIVE scanTailUses_KeepFirst(_, _, _, _, _)
scanTailUses_KeepFirst(a, b, uses, elements, numElements) ==
    IF uses = <<>>
    THEN [ok |-> TRUE, elements |-> elements, numElements |-> numElements]
    ELSE LET first == Head(uses)
             isIndex == a[first].kind = "index_addr"
             ili == IF isIndex THEN a[first].ops[2] ELSE NullValue
             index == IF isIndex /\ isa(a, ili, "integer_literal")
                      THEN getLimitedValue(a[ili].val) ELSE <<>>
             iaiUse == IF isIndex THEN getSingleUse(a, b, first) ELSE NullValue
             user == IF isIndex THEN iaiUse ELSE first
             bad == [ok |-> FALSE, elements |-> elements, numElements |-> numElements]
         IN  IF isIndex /\ ~isa(a, ili, "integer_literal") THEN bad
             ELSE IF isIndex /\ iaiUse = NullValue THEN bad
             ELSE IF ~isa(a, user, "store")
                     \/ ~(IsSmall(index) /\ SmallVal(index) < Len(elements))
             THEN bad
             ELSE IF elements[SmallVal(index) + 1] # NullValue
             THEN scanTailUses_KeepFirst(a, b, Tail(uses), elements, numElements)
             ELSE scanTailUses_KeepFirst(a, b, Tail(uses),
                      [elements EXCEPT ![SmallVal(index) + 1] = a[user].ops[1]],
                      numElements - 1)

\* the loop of decodeArrayElements over the uses of the ref_tail_addr, with
\* the elements found so far and the count of those still expected
RECURSIVE scanTailUses(_, _, _, _, _)
scanTailUses(a, b, uses, elements, numElements) ==
    IF uses = <<>>
    THEN [ok |-> TRUE, elements |-> elements, numElements |-> numElements]
    ELSE LET first == Head(uses)
             isIndex == a[first].kind = "index_addr"
             ili == IF isIndex THEN a[first].ops[2] ELSE NullValue
             index == IF isIndex /\ isa(a, ili, "integer_literal")
                      THEN getLimitedValue(a[ili].val) ELSE <<>>
             iaiUse == IF isIndex THEN getSingleUse(a, b, first) ELSE NullValue
             user == IF isIndex THEN iaiUse ELSE first
             bad == [ok |-> FALSE, elements |-> elements, numElements |-> numElements]
         IN  IF isIndex /\ ~isa(a, ili, "integer_literal") THEN bad
             ELSE IF isIndex /\ iaiUse = NullValue THEN bad
             ELSE IF ~isa(a, user, "store")
                     \/ ~(IsSmall(index) /\ SmallVal(index) < Len(elements))
                     \/ elements[SmallVal(index) + 1] # NullValue
             THEN bad
             ELSE scanTailUses(a, b, Tail(uses),
                      [elements EXCEPT ![SmallVal(index) + 1] = a[user].ops[1]],
                      numElements - 1)

decodeArrayElements(a, b, value) ==
    LET elementType == getArrayElementType(a[value].ty)
        found(elements) ==
            [ok |-> TRUE, elements |-> elements, elementType |-> elementType]
        \* the code after the strip loop, on the alloc_ref it reached
        fromAllocRef(allocRef) ==
            LET count == a[allocRef].ops[1]
                numElements == getLimitedValue(a[count].val)
            IN  IF Len(a[allocRef].ops) # 1 \/ ~isa(a, count, "integer_literal")
                THEN ArrayFail
                ELSE Bind(getSingleUserOfType(a, b, allocRef, "upcast"), LAMBDA uci :
                     IF uci = NullValue THEN ArrayFail
                     ELSE Bind(getSingleUserOfType(a, b, uci, "ref_tail_addr"), LAMBDA rti :
                          IF rti = NullValue THEN ArrayFail
                          ELSE IF ~IsSmall(numElements) THEN ArrayFail
                          ELSE Bind(scanTailUses(a, b, usesIn(a, b, rti),
                                        [i \in 1..SmallVal(numElements) |-> NullValue],
                                        SmallVal(numElements)), LAMBDA scan :
                               IF ~scan.ok \/ scan.numElements # 0 THEN ArrayFail
                               ELSE found(scan.elements))))
    IN  IF elementType = "" THEN ArrayFail
        ELSE Bind(stripToAllocRef(a, value), LAMBDA top :
             IF top.tag = "fail" THEN ArrayFail
             ELSE IF top.tag = "done" THEN found(top.elements)
             ELSE fromAllocRef(top.v))

(***************************************************************************)
(* The constant resolver.                                                  *)
(***************************************************************************)
RECURSIVE getScalarOperand(_, _, _)
getScalarOperand(a, b, v) ==
    IF ~a[v].ty.addr
    THEN IF isa(a, v, "struct") /\ Len(a[v].ops) = 1 THEN a[v].ops[1] ELSE v
    ELSE LET store == IF isa(a, v, "alloc_stack")
                      THEN getSingleUserOfType(a, b, v, "store") ELSE NullValue
         IN  IF store # NullValue
             THEN getScalarOperand(a, b, a[store].ops[1])
             ELSE NullValue

StringBuiltins == {<<"And">>, <<"Or">>, <<"ZExtOrBitCast">>, <<"PtrToInt">>}

\* the outcome of getAttrOperand where it reads operand 0 of a struct
\* without operands, or the payload of an enum without payload: the code has
\* an assert there and nothing else, so the read is undefined
Undefined == -1

\* a mutant of peelStringLiteral: a string_literal of any encoding is
\* returned
RECURSIVE peelStringLiteral_AnyEncoding(_, _)
peelStringLiteral_AnyEncoding(a, str) ==
    IF isa(a, str, "string_literal") THEN str
    ELSE IF isa(a, str, "struct")
    THEN (IF Len(a[str].ops) >= 1 THEN peelStringLiteral_AnyEncoding(a, a[str].ops[1])
          ELSE Undefined)
    ELSE IF isa(a, str, "enum")
    THEN (IF Len(a[str].ops) = 1 THEN peelStringLiteral_AnyEncoding(a, a[str].ops[1])
          ELSE Undefined)
    ELSE IF isa(a, str, "unchecked_bitwise_cast")
    THEN peelStringLiteral_AnyEncoding(a, a[str].ops[1])
    ELSE IF isa(a, str, "builtin") /\ a[str].name \in StringBuiltins
    THEN peelStringLiteral_AnyEncoding(a, a[str].ops[1])
    ELSE NullValue

\* the loop of getAttrOperand that peels a String value down to its
\* string_literal; Undefined where an assert of the loop does not hold (the
\* ops of the catalog have no such value: only ResolveAttr draws them)
RECURSIVE peelStringLiteral(_, _)
peelStringLiteral(a, str) ==
    IF isa(a, str, "string_literal")
    THEN (IF a[str].name = <<"utf8">> THEN str ELSE NullValue)
    ELSE IF isa(a, str, "struct")
    THEN (IF Len(a[str].ops) >= 1 THEN peelStringLiteral(a, a[str].ops[1])
          ELSE Undefined)
    ELSE IF isa(a, str, "enum")
    THEN (IF Len(a[str].ops) = 1 THEN peelStringLiteral(a, a[str].ops[1])
          ELSE Undefined)
    ELSE IF isa(a, str, "unchecked_bitwise_cast")
    THEN peelStringLiteral(a, a[str].ops[1])
    ELSE IF isa(a, str, "builtin") /\ a[str].name \in StringBuiltins
    THEN peelStringLiteral(a, a[str].ops[1])
    ELSE NullValue

\* a mutant of acceptedLiteral: the width test is < 64 instead of <= 64
acceptedLiteral_Below64(a, v) ==
    IF isa(a, v, "float_literal") THEN v
    ELSE IF isa(a, v, "integer_literal")
    THEN (IF getBitWidth(a[v].ty.name) < 64 THEN v ELSE NullValue)
    ELSE IF isa(a, v, "string_literal")
    THEN (IF a[v].name = <<"utf8">> THEN v ELSE NullValue)
    ELSE IF isa(a, v, "metatype") /\ convertSwiftTypeToTF(a[v].ty.elt) # 0 THEN v
    ELSE NullValue

\* the tail of getAttrOperand: the four literal shapes that are acceptable
\* values for an attribute
acceptedLiteral(a, v) ==
    IF isa(a, v, "float_literal") THEN v
    ELSE IF isa(a, v, "integer_literal")
    THEN (IF getBitWidth(a[v].ty.name) <= 64 THEN v ELSE NullValue)
    ELSE IF isa(a, v, "string_literal")
    THEN (IF a[v].name = <<"utf8">> THEN v ELSE NullValue)
    ELSE IF isa(a, v, "metatype") /\ convertSwiftTypeToTF(a[v].ty.elt) # 0 THEN v
    ELSE NullValue

\* a mutant of getAttrOperand: an array that decodes is returned without a
\* look at its elements
getAttrOperand_AnyElements(a, b, v) ==
    IF a[v].ty.name = "String" THEN peelStringLiteral(a, v)
    ELSE Bind(IF isa(a, v, "struct") THEN decodeArrayElements(a, b, v) ELSE ArrayFail,
              LAMBDA arr :
         IF arr.ok THEN v
         ELSE Bind(getScalarOperand(a, b, v), LAMBDA s :
              IF s = NullValue THEN NullValue ELSE acceptedLiteral(a, s)))

RECURSIVE getAttrOperand(_, _, _)
getAttrOperand(a, b, v) ==
    IF a[v].ty.name = "String" THEN peelStringLiteral(a, v)
    ELSE Bind(IF isa(a, v, "struct") THEN decodeArrayElements(a, b, v) ELSE ArrayFail,
              LAMBDA arr :
         IF arr.ok
         THEN (IF \A i \in 1..Len(arr.elements) :
                     getAttrOperand(a, b, arr.elements[i]) # NullValue
               THEN v ELSE NullValue)
         ELSE Bind(getScalarOperand(a, b, v), LAMBDA s :
              IF s = NullValue THEN NullValue ELSE acceptedLiteral(a, s)))

(***************************************************************************)
(* The descriptor decoder.                                                 *)
(***************************************************************************)
\* a SILTensorOpInfo
TensorOpInfo(i, builtinName, opName, attributes, numInputs) ==
    [inst |-> i, builtinName |-> builtinName, opName |-> opName,
     attributes |-> attributes, numInputs |-> numInputs]

NoInfo == TensorOpInfo(NullValue, <<>>, <<>>, <<>>, 0)

\* diag::tfop_invalid_tfop, as diagInvalid emits it: the problem, with the
\* suffix or the type name that the message quotes
diagInvalid(problem, suffix, tyName) ==
    [id |-> "tfop_invalid_tfop", problem |-> problem, suffix |-> suffix,
     ty |-> tyName, nums |-> <<>>]

\* diag::tf_op_misuse of decodeTensorFromScalars, with the two counts
diagMisuse(problem, nums) ==
    [id |-> "tf_op_misuse", problem |-> problem, suffix |-> <<>>, ty |-> "",
     nums |-> nums]

\* the outcomes of undefined behaviour (a null SILValue dereferenced, a cast
\* or llvm_unreachable reached): the process faults, or the build runs on
UBOutcomes == {"fault", "continue"}

\* the loop of decodeBuiltin over the input operands, from operand k on:
\* "ok", "diag" with the diagnostic, or "ub" where getScalarOperand returned
\* null and the code reads its type
RECURSIVE checkInputs(_, _, _, _, _)
checkInputs(a, b, i, k, numInputs) ==
    IF k > numInputs
    THEN [tag |-> "ok", diag |-> diagInvalid("", <<>>, "")]
    ELSE LET op == a[i].ops[k]
         IN  IF isTensorHandle(a[op].ty)
             THEN checkInputs(a, b, i, k + 1, numInputs)
             ELSE Bind(getScalarOperand(a, b, op), LAMBDA scalar :
                  IF scalar = NullValue
                  THEN [tag |-> "ub", diag |-> diagInvalid("", <<>>, "")]
                  ELSE IF convertSwiftTypeToTF(a[scalar].ty.name) = 0
                  THEN [tag |-> "diag",
                        diag |-> diagInvalid("operand has unrecognized type", <<>>,
                                             a[scalar].ty.name)]
                  ELSE checkInputs(a, b, i, k + 1, numInputs))

\* the loop of decodeBuiltin over the attribute entries: the decoded entries,
\* or the first offending suffix
RECURSIVE decodeModifiers(_)
decodeModifiers(attributes) ==
    IF attributes = <<>>
    THEN [ok |-> TRUE, attributes |-> <<>>, suffix |-> <<>>]
    ELSE Bind(decodeModifier(Head(attributes)), LAMBDA m :
         IF ~m.ok
         THEN [ok |-> FALSE, attributes |-> <<>>, suffix |-> m.suffix]
         ELSE Bind(decodeModifiers(Tail(attributes)), LAMBDA rest :
              IF ~rest.ok THEN rest
              ELSE [ok |-> TRUE, attributes |-> <<m.attr>> \o rest.attributes,
                    suffix |-> <<>>]))

\* decodeBuiltin: ok with the descriptor, or not ok with the diagnostics it
\* emitted; ub where the code's behaviour is undefined
decodeBuiltin(a, b, i) ==
    LET name == a[i].name
        numOperands == Len(a[i].ops)
        none == [ok |-> FALSE, ub |-> FALSE, info |-> NoInfo, diags |-> <<>>]
    IN  Bind(decodeTensorOpName(name), LAMBDA d :
        IF ~d.ok THEN none
        ELSE IF numOperands < Len(d.attributes) THEN [none EXCEPT !.ub = TRUE]
        ELSE Bind(numOperands - Len(d.attributes), LAMBDA numInputs :
             Bind(checkInputs(a, b, i, 1, numInputs), LAMBDA inputs :
             IF inputs.tag = "ub" THEN [none EXCEPT !.ub = TRUE]
             ELSE IF inputs.tag = "diag" THEN [none EXCEPT !.diags = <<inputs.diag>>]
             ELSE Bind(decodeModifiers(d.attributes), LAMBDA mods :
                  IF ~mods.ok
                  THEN [none EXCEPT !.diags =
                           <<diagInvalid("invalid attribute modifier", mods.suffix, "")>>]
                  ELSE [ok |-> TRUE, ub |-> FALSE,
                        info |-> TensorOpInfo(i, name, d.opName, mods.attributes,
                                              numInputs),
                        diags |-> <<>>]))))

\* SILTensorOpInfo::decode
decode(a, b, i) ==
    LET none == [ok |-> FALSE, ub |-> FALSE, info |-> NoInfo, diags |-> <<>>]
        \* the builtin the instruction is or, as a tuple_extract, projects
        builtin == IF isa(a, i, "tuple_extract") /\ isa(a, a[i].ops[1], "builtin")
                   THEN a[i].ops[1]
                   ELSE IF isa(a, i, "builtin") THEN i
                   ELSE NullValue
    IN  IF builtin # NullValue THEN decodeBuiltin(a, b, builtin) ELSE none

(***************************************************************************)
(* The attribute validator.                                                *)
(***************************************************************************)
\* an error string of checkAttributeConstants: its wording, the attribute
\* names it quotes and the numbers it quotes; NoError is the empty string
AttrError(text, attrName) == [text |-> text, names |-> <<attrName>>, nums |-> <<>>]

NoError == [text |-> "", names |-> <<>>, nums |-> <<>>]

CountError(scalarCount, size) ==
    [text |-> "tensor literal should have N scalars for this shape, but has M",
     names |-> <<>>, nums |-> <<scalarCount, size>>]

\* the loop of checkAttributeConstants that multiplies the dimensions of the
\* shape in a uint64_t, after the elements of shape: not ok from the first
\* element on that is no integer literal
RECURSIVE shapeScalarCount(_, _, _)
shapeScalarCount(a, b, shape) ==
    IF shape = <<>> THEN [ok |-> TRUE, scalarCount |-> FromInt(1)]
    ELSE Bind(shapeScalarCount(a, b, SubSeq(shape, 1, Len(shape) - 1)), LAMBDA before :
         IF ~before.ok THEN before
         ELSE Bind(getAttrOperand(a, b, shape[Len(shape)]), LAMBDA eltCst :
              IF ~isa(a, eltCst, "integer_literal")
              THEN [ok |-> FALSE, scalarCount |-> before.scalarCount]
              ELSE [ok |-> TRUE,
                    scalarCount |-> Wrap64(NatMul(before.scalarCount,
                                                  getLimitedValue(a[eltCst].val)))]))

\* a mutant of checkTensorArray: the shape entry is checked and not consumed
checkTensorArray_ShapeNotConsumed(a, b, nfo, attrId, operandNumber, operand) ==
    LET attr == nfo.attributes[attrId]
        done(n) == [err |-> NoError, consumed |-> n]
        fail(e) == [err |-> e, consumed |-> 0]
        hasShape == attrId + 1 <= Len(nfo.attributes)
                    /\ attr.first = nfo.attributes[attrId + 1].first
                    /\ nfo.attributes[attrId + 1].second = "Shape"
        \* the code from the shape operand on, for numScalars scalars
        checkShape(numScalars) ==
            Bind(getAttrOperand(a, b, a[nfo.inst].ops[operandNumber + 1]),
                 LAMBDA shapeOperand :
            IF shapeOperand = NullValue \/ ~isa(a, shapeOperand, "struct")
            THEN fail(AttrError("has invalid shape", attr.first))
            ELSE Bind(decodeArrayElements(a, b, shapeOperand), LAMBDA shape :
                 IF ~shape.ok
                 THEN fail(AttrError("has non-constant shape", attr.first))
                 ELSE Bind(shapeScalarCount(a, b, shape.elements), LAMBDA count :
                      IF ~count.ok
                      THEN fail(AttrError("has non-constant shape", attr.first))
                      ELSE IF count.scalarCount # FromInt(numScalars)
                      THEN fail(CountError(count.scalarCount, FromInt(numScalars)))
                      ELSE done(1))))
    IN  Bind(decodeArrayElements(a, b, operand), LAMBDA scalars :
        IF ~scalars.ok
        THEN fail(AttrError("requires an array of constant values", attr.first))
        ELSE IF \E k \in 1..Len(scalars.elements) :
                    getAttrOperand(a, b, scalars.elements[k]) = NullValue
        THEN fail(AttrError("requires an array of constant values", attr.first))
        ELSE IF ~hasShape
        THEN (IF isa(a, nfo.inst, "apply") THEN done(1)
              ELSE fail(AttrError("must be followed by a shape", attr.first)))
        ELSE checkShape(Len(scalars.elements)))

\* the Tensor case of checkAttributeConstants for an operand that is a
\* struct: the error, or NoError with the number of role entries consumed
checkTensorArray(a, b, nfo, attrId, operandNumber, operand) ==
    LET attr == nfo.attributes[attrId]
        done(n) == [err |-> NoError, consumed |-> n]
        fail(e) == [err |-> e, consumed |-> 0]
        hasShape == attrId + 1 <= Len(nfo.attributes)
                    /\ attr.first = nfo.attributes[attrId + 1].first
                    /\ nfo.attributes[attrId + 1].second = "Shape"
        \* the code from the shape operand on, for numScalars scalars
        checkShape(numScalars) ==
            Bind(getAttrOperand(a, b, a[nfo.inst].ops[operandNumber + 1]),
                 LAMBDA shapeOperand :
            IF shapeOperand = NullValue \/ ~isa(a, shapeOperand, "struct")
            THEN fail(AttrError("has invalid shape", attr.first))
            ELSE Bind(decodeArrayElements(a, b, shapeOperand), LAMBDA shape :
                 IF ~shape.ok
                 THEN fail(AttrError("has non-constant shape", attr.first))
                 ELSE Bind(shapeScalarCount(a, b, shape.elements), LAMBDA count :
                      IF ~count.ok
                      THEN fail(AttrError("has non-constant shape", attr.first))
                      ELSE IF count.scalarCount # FromInt(numScalars)
                      THEN fail(CountError(count.scalarCount, FromInt(numScalars)))
                      ELSE done(2))))
    IN  Bind(decodeArrayElements(a, b, operand), LAMBDA scalars :
        IF ~scalars.ok
        THEN fail(AttrError("requires an array of constant values", attr.first))
        ELSE IF \E k \in 1..Len(scalars.elements) :
                    getAttrOperand(a, b, scalars.elements[k]) = NullValue
        THEN fail(AttrError("requires an array of constant values", attr.first))
        ELSE IF ~hasShape
        THEN (IF isa(a, nfo.inst, "apply") THEN done(1)
              ELSE fail(AttrError("must be followed by a shape", attr.first)))
        ELSE checkShape(Len(scalars.elements)))

\* the loop of checkAttributeConstants from role entry attrId (1-based) and
\* operand operandNumber (1-based) on
RECURSIVE checkAttributesFrom(_, _, _, _, _)
checkAttributesFrom(a, b, nfo, attrId, operandNumber) ==
    IF attrId > Len(nfo.attributes) THEN NoError
    ELSE LET attr == nfo.attributes[attrId]
             literalError == AttrError(
                 "requires a constant integer or floating point constant", attr.first)
             \* the Tensor case of the switch
             tensorCase(operand) ==
                 IF isa(a, operand, "integer_literal")
                    \/ isa(a, operand, "float_literal")
                    \/ isa(a, operand, "metatype")
                 THEN [err |-> NoError, consumed |-> 1]
                 ELSE IF isa(a, operand, "struct")
                 THEN checkTensorArray(a, b, nfo, attrId, operandNumber, operand)
                 ELSE [err |-> literalError, consumed |-> 0]
             \* the error of the switch on the role, or NoError with the
             \* number of role entries the iteration consumed
             step(operand) ==
                 CASE attr.second = "Normal" -> [err |-> NoError, consumed |-> 1]
                   [] attr.second = "DType" ->
                        IF isa(a, operand, "integer_literal")
                        THEN [err |-> NoError, consumed |-> 1]
                        ELSE [err |-> AttrError("requires a constant integer", attr.first),
                              consumed |-> 0]
                   [] attr.second \in {"Shape", "Array"} ->
                        IF isa(a, operand, "metatype")
                        THEN [err |-> NoError, consumed |-> 1]
                        ELSE [err |-> literalError, consumed |-> 0]
                   [] attr.second = "ArrayElement" ->
                        IF isa(a, operand, "integer_literal")
                           \/ isa(a, operand, "float_literal")
                        THEN [err |-> NoError, consumed |-> 1]
                        ELSE [err |-> literalError, consumed |-> 0]
                   [] attr.second = "Tensor" -> tensorCase(operand)
         IN  Bind(getAttrOperand(a, b, a[nfo.inst].ops[operandNumber]), LAMBDA operand :
             IF operand = NullValue
             THEN AttrError("requires a constant argument", attr.first)
             ELSE Bind(step(operand), LAMBDA s :
                  IF s.err # NoError THEN s.err
                  ELSE checkAttributesFrom(a, b, nfo, attrId + s.consumed,
                                           operandNumber + s.consumed)))

checkAttributeConstants(a, b, nfo) ==
    checkAttributesFrom(a, b, nfo, 1,
                        Len(a[nfo.inst].ops) - Len(nfo.attributes) + 1)

(***************************************************************************)
(* The rewrite surface of the IR.                                          *)
(***************************************************************************)
\* the 1-based position of instruction i in the function
positionOf(b, i) == CHOOSE k \in 1..Len(b) : b[k] = i

\* SILBuilder(forInst).create...: a new instruction, inserted before forInst
createBefore(a, b, forInst, rec) ==
    LET k == positionOf(b, forInst)
        v == Len(a) + 1
    IN  [a |-> Append(a, rec),
         b |-> SubSeq(b, 1, k - 1) \o <<v>> \o SubSeq(b, k, Len(b)),
         v |-> v]

\* eraseFromParent without replaceAllUsesPairwiseWith: the users keep the
\* erased instruction as their operand
replaceAndErase_EraseOnly(a, b, old, new) ==
    [a |-> a, b |-> SelectSeq(b, LAMBDA i : i # old)]

\* replaceAllUsesPairwiseWith followed by eraseFromParent
replaceAndErase(a, b, old, new) ==
    [a |-> [i \in 1..Len(a) |->
               IF i \in Range(b)
               THEN [a[i] EXCEPT !.ops = [k \in 1..Len(a[i].ops) |->
                                   IF a[i].ops[k] = old THEN new ELSE a[i].ops[k]]]
               ELSE a[i]],
     b |-> SelectSeq(b, LAMBDA i : i # old)]

(***************************************************************************)
(* The canonicalizer.                                                      *)
(***************************************************************************)
\* the loop of expandArrayAttribute that adds the elements as explicit
\* operands, cloning the literals of another function; ub at llvm_unreachable
RECURSIVE addArrayElements(_, _, _, _, _, _)
addArrayElements(a, b, elements, name, operands, forInst) ==
    IF elements = <<>>
    THEN [ub |-> FALSE, a |-> a, b |-> b, name |-> name, operands |-> operands]
    ELSE LET elt == Head(elements)
             foreign == a[elt].fn # a[forInst].fn
             cloneable == isa(a, elt, "integer_literal") \/ isa(a, elt, "float_literal")
             copy == createBefore(a, b, forInst,
                        At(a, forInst,
                           Inst(a[elt].kind, <<>>, a[elt].ty, a[elt].val, a[elt].name,
                                a[forInst].fn)))
             a1 == IF foreign THEN copy.a ELSE a
             b1 == IF foreign THEN copy.b ELSE b
             e1 == IF foreign THEN copy.v ELSE elt
         IN  IF foreign /\ ~cloneable
             THEN [ub |-> TRUE, a |-> a, b |-> b, name |-> name, operands |-> operands]
             ELSE addArrayElements(a1, b1, Tail(elements),
                      name \o <<",">> \o getAttributeModifierSuffix("ArrayElement"),
                      Append(operands, e1), forInst)

\* a mutant of expandArrayAttribute: a Normal array keeps the role Normal
expandArrayAttribute_KeepNormal(a, b, arrayVal, attrName, attrKind, name, operands, forInst) ==
    LET kind == attrKind
        name1 == name \o <<",">> \o attrName \o getAttributeModifierSuffix(kind)
        unchanged == [ok |-> FALSE, ub |-> FALSE, a |-> a, b |-> b, name |-> name,
                      operands |-> operands]
    IN  Bind(decodeArrayElements(a, b, arrayVal), LAMBDA arr :
        IF ~arr.ok THEN unchanged
        ELSE Bind([k \in 1..Len(arr.elements) |-> getAttrOperand(a, b, arr.elements[k])],
                  LAMBDA elements :
             IF \E k \in 1..Len(elements) : elements[k] = NullValue THEN unchanged
             ELSE Bind(createBefore(a, b, forInst,
                           At(a, forInst,
                              Inst("metatype", <<>>, Ty("Metatype", arr.elementType),
                                   <<>>, <<>>, a[forInst].fn))), LAMBDA meta :
                  Bind(addArrayElements(meta.a, meta.b, elements, name1,
                                        Append(operands, meta.v), forInst), LAMBDA added :
                  [ok |-> TRUE, ub |-> added.ub, a |-> added.a, b |-> added.b,
                   name |-> added.name, operands |-> added.operands]))))

\* expandArrayAttribute: not ok (nothing created) when the value is no array
\* of constants; otherwise the metatype and the elements are added
expandArrayAttribute(a, b, arrayVal, attrName, attrKind, name, operands, forInst) ==
    LET kind == IF attrKind = "Normal" THEN "Array" ELSE attrKind
        name1 == name \o <<",">> \o attrName \o getAttributeModifierSuffix(kind)
        unchanged == [ok |-> FALSE, ub |-> FALSE, a |-> a, b |-> b, name |-> name,
                      operands |-> operands]
    IN  Bind(decodeArrayElements(a, b, arrayVal), LAMBDA arr :
        IF ~arr.ok THEN unchanged
        ELSE Bind([k \in 1..Len(arr.elements) |-> getAttrOperand(a, b, arr.elements[k])],
                  LAMBDA elements :
             IF \E k \in 1..Len(elements) : elements[k] = NullValue THEN unchanged
             ELSE Bind(createBefore(a, b, forInst,
                           At(a, forInst,
                              Inst("metatype", <<>>, Ty("Metatype", arr.elementType),
                                   <<>>, <<>>, a[forInst].fn))), LAMBDA meta :
                  Bind(addArrayElements(meta.a, meta.b, elements, name1,
                                        Append(operands, meta.v), forInst), LAMBDA added :
                  [ok |-> TRUE, ub |-> added.ub, a |-> added.a, b |-> added.b,
                   name |-> added.name, operands |-> added.operands]))))

\* the loop of canonicalizeOperands over the input operands
canonicalInputs(a, b, nfo) ==
    [k \in 1..nfo.numInputs |->
        IF isTensorHandle(a[a[nfo.inst].ops[k]].ty) THEN a[nfo.inst].ops[k]
        ELSE getScalarOperand(a, b, a[nfo.inst].ops[k])]

\* the loop of canonicalizeOperands over the attributes, from role entry k on;
\* ub where getAttrOperand returned null and the code dereferences it
RECURSIVE canonicalAttributes(_, _, _, _, _, _)
canonicalAttributes(a, b, nfo, k, name, operands) ==
    IF k > Len(nfo.attributes)
    THEN [ub |-> FALSE, a |-> a, b |-> b, name |-> name, operands |-> operands]
    ELSE LET attr == nfo.attributes[k]
             operand == a[nfo.inst].ops[nfo.numInputs + k]
             stop == [ub |-> TRUE, a |-> a, b |-> b, name |-> name,
                      operands |-> operands]
         IN  Bind(getAttrOperand(a, b, operand), LAMBDA attrOperand :
             IF attrOperand = NullValue THEN stop
             ELSE IF ~isa(a, attrOperand, "struct")
             THEN canonicalAttributes(a, b, nfo, k + 1,
                      name \o <<",">> \o attr.first
                           \o getAttributeModifierSuffix(attr.second),
                      Append(operands, attrOperand))
             ELSE Bind(expandArrayAttribute(a, b, attrOperand, attr.first, attr.second,
                                            name, operands, nfo.inst), LAMBDA x :
                  IF ~x.ok \/ x.ub THEN stop
                  ELSE Bind(createBefore(x.a, x.b, nfo.inst,
                                At(a, nfo.inst,
                                   Inst("release_value", <<attrOperand>>, Ty("()", ""),
                                        <<>>, <<>>, a[nfo.inst].fn))), LAMBDA release :
                       canonicalAttributes(release.a, release.b, nfo, k + 1, x.name,
                                           x.operands))))

\* canonicalizeOperands: the function after the call, the descriptor after
\* the call and the instruction returned
canonicalizeOperands(a, b, nfo) ==
    LET i == nfo.inst
        stop == [ub |-> TRUE, a |-> a, b |-> b, info |-> nfo, ret |-> i]
        \* the code after the two loops: the builtin is replaced when its name
        \* or its operands changed
        replace(attrs) ==
            LET changed == attrs.name # nfo.builtinName
                           \/ Len(attrs.operands) # Len(a[i].ops)
                           \/ \E k \in 1..Len(attrs.operands) :
                                 attrs.operands[k] # a[i].ops[k]
            IN  IF ~changed
                THEN [ub |-> FALSE, a |-> attrs.a, b |-> attrs.b, info |-> nfo, ret |-> i]
                ELSE Bind(createBefore(attrs.a, attrs.b, i,
                              At(a, i,
                                 Inst("builtin", attrs.operands, a[i].ty, <<>>,
                                      attrs.name, a[i].fn))), LAMBDA new :
                     Bind(replaceAndErase(new.a, new.b, i, new.v), LAMBDA after :
                     Bind(decode(after.a, after.b, new.v), LAMBDA newResult :
                     IF ~newResult.ok
                     THEN [ub |-> TRUE, a |-> after.a, b |-> after.b, info |-> nfo,
                           ret |-> new.v]
                     ELSE [ub |-> FALSE, a |-> after.a, b |-> after.b,
                           info |-> newResult.info, ret |-> new.v])))
    IN  Bind(canonicalInputs(a, b, nfo), LAMBDA inputs :
        IF \E k \in 1..Len(inputs) : inputs[k] = NullValue THEN stop
        ELSE Bind(canonicalAttributes(a, b, nfo, 1, TFOP_PREFIX \o nfo.opName, inputs),
                  LAMBDA attrs :
             IF attrs.ub THEN stop ELSE replace(attrs)))

(***************************************************************************)
(* Promotion of the well-known calls to a Const op.                        *)
(***************************************************************************)
TFOP_CONST == TFOP_PREFIX \o <<"C", "o", "n", "s", "t">>

VALUE == <<"v", "a", "l", "u", "e">>

\* the loop of decodeTensorFromScalars that multiplies the shape operands in
\* a uint64_t, after the operands elts: not ok from the first operand on that
\* cast<IntegerLiteralInst> is handed and that is no integer literal
RECURSIVE operandScalarCount(_, _)
operandScalarCount(a, elts) ==
    IF elts = <<>> THEN [ok |-> TRUE, scalarCount |-> FromInt(1)]
    ELSE Bind(operandScalarCount(a, SubSeq(elts, 1, Len(elts) - 1)), LAMBDA before :
         LET elt == elts[Len(elts)]
         IN  IF ~before.ok THEN before
             ELSE IF ~isa(a, elt, "integer_literal")
             THEN [ok |-> FALSE, scalarCount |-> before.scalarCount]
             ELSE [ok |-> TRUE,
                   scalarCount |-> Wrap64(NatMul(before.scalarCount,
                                                 getLimitedValue(a[elt].val)))])

decodeTensorFromScalars(a, b, i) ==
    LET same(a1, b1, ds) == [ub |-> FALSE, a |-> a1, b |-> b1, ret |-> i, diags |-> ds]
        \* the code after the two arrays were expanded into x2, the first of
        \* them into numElements operands
        finish(x1, x2, numElements) ==
            Bind(operandScalarCount(x2.a, drop_front(x2.operands, numElements + 2)),
                 LAMBDA count :
            IF ~count.ok THEN [same(x1.a, x1.b, <<>>) EXCEPT !.ub = TRUE]
            ELSE IF count.scalarCount # FromInt(numElements)
            THEN same(x2.a, x2.b,
                      <<diagMisuse("tensor literal should have N scalars for this shape, but has M",
                                   <<count.scalarCount, FromInt(numElements)>>)>>)
            ELSE Bind(createBefore(x2.a, x2.b, i,
                          At(a, i,
                             Inst("builtin", Append(x2.operands, x2.operands[1]), a[i].ty,
                                  <<>>, x2.name \o <<",", "d", "t", "y", "p", "e">>,
                                  a[i].fn))), LAMBDA new :
                 Bind(replaceAndErase(new.a, new.b, i, new.v), LAMBDA after :
                 [ub |-> FALSE, a |-> after.a, b |-> after.b, ret |-> new.v,
                  diags |-> <<>>])))
    IN  Bind(getAttrOperand(a, b, a[i].ops[2]), LAMBDA scalars :
        Bind(getAttrOperand(a, b, a[i].ops[3]), LAMBDA shape :
        IF scalars = NullValue \/ shape = NullValue THEN same(a, b, <<>>)
        ELSE Bind(expandArrayAttribute(a, b, scalars, VALUE, "Tensor", TFOP_CONST,
                                       <<>>, i), LAMBDA x1 :
             IF ~x1.ok THEN same(a, b, <<>>)
             ELSE IF x1.ub THEN [same(a, b, <<>>) EXCEPT !.ub = TRUE]
             ELSE Bind(expandArrayAttribute(x1.a, x1.b, shape, VALUE, "Shape", x1.name,
                                            x1.operands, i), LAMBDA x2 :
                  IF ~x2.ok THEN same(x1.a, x1.b, <<>>)
                  ELSE IF x2.ub THEN [same(x1.a, x1.b, <<>>) EXCEPT !.ub = TRUE]
                  ELSE finish(x1, x2, Len(x1.operands) - 1)))))

decodeTensorFromScalars1D(a, b, i) ==
    LET same == [ub |-> FALSE, a |-> a, b |-> b, ret |-> i, diags |-> <<>>]
        \* the code after the array was expanded into x1
        finish(x1) ==
            LET scalarCount == Len(x1.operands) - 1
                name == x1.name \o <<",", "s", "h", "a", "p", "e">>
                           \o getAttributeModifierSuffix("Shape")
                           \o <<",">> \o getAttributeModifierSuffix("ArrayElement")
                           \o <<",", "d", "t", "y", "p", "e">>
            IN  Bind(createBefore(x1.a, x1.b, i,
                         At(a, i,
                            Inst("integer_literal", <<>>, Ty("Builtin.Int64", ""),
                                 FromInt(scalarCount), <<>>, a[i].fn))), LAMBDA lit :
                Bind(createBefore(lit.a, lit.b, i,
                         At(a, i,
                            Inst("builtin",
                                 x1.operands \o <<x1.operands[1], lit.v, x1.operands[1]>>,
                                 a[i].ty, <<>>, name, a[i].fn))), LAMBDA new :
                Bind(replaceAndErase(new.a, new.b, i, new.v), LAMBDA after :
                [ub |-> FALSE, a |-> after.a, b |-> after.b, ret |-> new.v,
                 diags |-> <<>>])))
    IN  Bind(getAttrOperand(a, b, a[i].ops[2]), LAMBDA scalars :
        IF scalars = NullValue THEN same
        ELSE Bind(expandArrayAttribute(a, b, scalars, VALUE, "Tensor", TFOP_CONST,
                                       <<>>, i), LAMBDA x1 :
             IF ~x1.ok THEN same
             ELSE IF x1.ub THEN [same EXCEPT !.ub = TRUE]
             ELSE finish(x1)))

decodeApply(a, b, apply, name) ==
    IF name = <<"__tf_tensor_from_scalars">> THEN decodeTensorFromScalars(a, b, apply)
    ELSE IF name = <<"__tf_tensor_from_scalars_1d">>
    THEN decodeTensorFromScalars1D(a, b, apply)
    ELSE [ub |-> FALSE, a |-> a, b |-> b, ret |-> apply, diags |-> <<>>]

(***************************************************************************)
(* The pass over one instruction: decode, validate, canonicalize.          *)
(***************************************************************************)
Snapshot == [ir |-> ir, body |-> body, inst |-> inst, info |-> info]

\* SILTensorOpInfo::decode(inst)
Decode ==
    /\ pc = "ready"
    /\ \E r \in {decode(ir, body, inst)} :
           /\ snap' = Snapshot
           /\ IF r.ub
              THEN /\ pc' \in UBOutcomes
                   /\ UNCHANGED <<info, diags>>
              ELSE /\ pc' = IF r.ok THEN "decoded" ELSE "rejected"
                   /\ info' = r.info
                   /\ diags' = diags \o r.diags
    /\ UNCHANGED <<ir, body, inst, err, ret, arg, res>>

\* checkAttributeConstants() on the decoded descriptor
Check ==
    /\ pc = "decoded"
    /\ snap' = Snapshot
    /\ err' = checkAttributeConstants(ir, body, info)
    /\ pc' = "checked"
    /\ UNCHANGED <<ir, body, inst, info, diags, ret, arg, res>>

\* canonicalizeOperands() on a descriptor that validated; a second call on
\* the descriptor the first call left
Canonicalize ==
    /\ pc \in {"checked", "canonical"}
    /\ err = NoError
    /\ \E r \in {canonicalizeOperands(ir, body, info)} :
           /\ snap' = Snapshot
           /\ IF r.ub
              THEN /\ pc' \in UBOutcomes
                   /\ UNCHANGED <<ir, body, inst, info, ret>>
              ELSE /\ pc' = IF pc = "checked" THEN "canonical" ELSE "recanonical"
                   /\ ir' = r.a
                   /\ body' = r.b
                   /\ info' = r.info
                   /\ inst' = r.ret
                   /\ ret' = r.ret
    /\ UNCHANGED <<diags, err, arg, res>>

\* SILTensorOpInfo::decodeApply(apply, name)
DecodeApply ==
    /\ pc = "ready"
    /\ isa(ir, inst, "apply")
    /\ \E r \in {decodeApply(ir, body, inst, ir[inst].name)} :
           /\ snap' = Snapshot
           /\ IF r.ub
              THEN /\ pc' \in UBOutcomes
                   /\ UNCHANGED <<ir, body, ret, diags>>
              ELSE /\ pc' = "applied"
                   /\ ir' = r.a
                   /\ body' = r.b
                   /\ ret' = r.ret
                   /\ diags' = diags \o r.diags
    /\ UNCHANGED <<inst, info, err, arg, res>>

(***************************************************************************)
(* The SIL that the instruction under analysis is drawn from.  A value is  *)
(* described by its shape (a tree); build gives the instructions of a      *)
(* shape in the order the compiler's lowering emits them.                  *)
(***************************************************************************)
IntLit(tyName, val) == [s |-> "int", ty |-> tyName, val |-> val]

FloatLit(tyName, val) == [s |-> "float", ty |-> tyName, val |-> val]

Arg(ty) == [s |-> "arg", ty |-> ty]

Struct(tyName, of) == [s |-> "struct", ty |-> tyName, elt |-> "", of |-> of]

Enum(tyName, of) == [s |-> "enum", ty |-> tyName, elt |-> "", of |-> of]

BitwiseCast(tyName, of) == [s |-> "unchecked_bitwise_cast", ty |-> tyName, of |-> of]

\* builtin "name"(of...) : $tyName
BuiltinValue(name, tyName, of) == [s |-> "builtin", name |-> name, ty |-> tyName, of |-> of]

\* alloc_stack $ty with a store of each of stores to it, and the other uses
AllocStack(tyName, stores, others) ==
    [s |-> "alloc_stack", ty |-> tyName, stores |-> stores, others |-> others]

StringLit(enc) == [s |-> "string_literal", enc |-> enc]

\* struct $Int (integer_literal $Builtin.Int64, n)
IntOf(n) == Struct("Int", <<IntLit("Builtin.Int64", n)>>)

\* the uses of a ref_tail_addr
StoreUse(src) == [u |-> "store", k |-> 0, n |-> "store", src |-> src]

IndexUse(k, n, src) == [u |-> "index", k |-> k, n |-> n, src |-> src]

IndexArgUse(src) == [u |-> "index_arg", k |-> 0, n |-> "store", src |-> src]

LoadUse == [u |-> "load", k |-> 0, n |-> "none", src |-> IntLit("Builtin.Int64", <<>>)]

\* an array built by the allocation idiom
ArrayOf(elt, count, n, upcasts, rtas, uses, wrap) ==
    [s |-> "array", elt |-> elt, count |-> count, n |-> n, upcasts |-> upcasts,
     rtas |-> rtas, uses |-> uses, wrap |-> wrap]

\* the array literal [e1, ..., en] as lowered: a direct store for element 0,
\* a store through index_addr for the others
ArrayLiteral(elt, elems) ==
    ArrayOf(elt, "lit", Len(elems), 1, 1,
            [k \in 1..Len(elems) |->
                IF k = 1 THEN StoreUse(elems[k])
                ELSE IndexUse(k - 1, "store", elems[k])],
            "native")

GlobalArray(elt, elems) == [s |-> "global_array", elt |-> elt, elems |-> elems]

EmptyArray(elt) == [s |-> "empty_array", elt |-> elt]

\* the instructions of a shape, numbered from base + 1 on, and its value
Frag(is, v) == [is |-> is, v |-> v]

\* the instructions of the arena that the function under analysis holds
bodyOf(a) == SelectSeq([i \in 1..Len(a) |-> i], LAMBDA i : a[i].fn = "f")

RECURSIVE build(_, _, _)
RECURSIVE buildAll(_, _, _)
RECURSIVE buildStores(_, _, _, _)
RECURSIVE buildOthers(_, _, _, _, _)
RECURSIVE buildUses(_, _, _, _)

\* the values of several shapes, in order
buildAll(shapes, base, fn) ==
    IF shapes = <<>> THEN [is |-> <<>>, vs |-> <<>>]
    ELSE Bind(build(Head(shapes), base, fn), LAMBDA h :
         Bind(buildAll(Tail(shapes), base + Len(h.is), fn), LAMBDA t :
         [is |-> h.is \o t.is, vs |-> <<h.v>> \o t.vs]))

\* one store to the address at per source
buildStores(srcs, base, at, fn) ==
    IF srcs = <<>> THEN <<>>
    ELSE Bind(build(Head(srcs), base, fn), LAMBDA src :
         Bind(src.is \o <<Inst("store", <<src.v, at>>, Ty("()", ""), <<>>, <<>>, fn)>>,
              LAMBDA h :
         h \o buildStores(Tail(srcs), base + Len(h), at, fn)))

\* the uses of the stack slot at that are no store: a copy_addr from another
\* address into the slot, a load of it, its dealloc_stack
buildOthers(others, base, at, tyName, fn) ==
    IF others = <<>> THEN <<>>
    ELSE Bind(CASE Head(others) = "copy_addr" ->
                     <<Inst("argument", <<>>, AddrTy(tyName, ""), <<>>, <<>>, fn),
                       Inst("copy_addr", <<base + 1, at>>, Ty("()", ""), <<>>, <<>>, fn)>>
                [] Head(others) = "load" ->
                     <<Inst("load", <<at>>, Ty(tyName, ""), <<>>, <<>>, fn)>>
                [] Head(others) = "dealloc_stack" ->
                     <<Inst("dealloc_stack", <<at>>, Ty("()", ""), <<>>, <<>>, fn)>>,
              LAMBDA h :
         h \o buildOthers(Tail(others), base + Len(h), at, tyName, fn))

\* one use of the tail address rta of an array of elt
buildUse(use, base, rta, elt) ==
    LET word == Ty("Builtin.Word", "")
        idx == IF use.u = "index"
               THEN Inst("integer_literal", <<>>, word, FromInt(use.k), <<>>, "f")
               ELSE Inst("argument", <<>>, word, <<>>, <<>>, "f")
        iai == base + 2
        index == <<idx, Inst("index_addr", <<rta, base + 1>>, AddrTy(elt, ""),
                            <<>>, <<>>, "f")>>
        load(at) == Inst("load", <<at>>, Ty(elt, ""), <<>>, <<>>, "f")
        \* the source, numbered after the instructions before, stored to at
        stored(before, at) ==
            Bind(build(use.src, base + Len(before), "f"), LAMBDA src :
            before \o src.is
                   \o <<Inst("store", <<src.v, at>>, Ty("()", ""), <<>>, <<>>, "f")>>)
    IN  CASE use.u = "store" -> stored(<<>>, rta)
          [] use.u = "load" -> <<load(rta)>>
          [] use.n \in {"store", "store2"} ->
               Bind(stored(index, iai), LAMBDA once :
               IF use.n = "store" THEN once ELSE stored(once, iai))
          [] use.n = "load" -> index \o <<load(iai)>>
          [] OTHER -> index

\* the uses of the tail address rta, in order
buildUses(uses, base, rta, elt) ==
    IF uses = <<>> THEN <<>>
    ELSE Bind(buildUse(Head(uses), base, rta, elt), LAMBDA h :
         h \o buildUses(Tail(uses), base + Len(h), rta, elt))

build(sh, base, fn) ==
    CASE sh.s = "arg" -> Frag(<<Inst("argument", <<>>, sh.ty, <<>>, <<>>, fn)>>, base + 1)
      [] sh.s = "int" ->
           Frag(<<Inst("integer_literal", <<>>, Ty(sh.ty, ""), sh.val, <<>>, fn)>>,
                base + 1)
      [] sh.s = "float" ->
           Frag(<<Inst("float_literal", <<>>, Ty(sh.ty, ""), sh.val, <<>>, fn)>>,
                base + 1)
      [] sh.s = "string_literal" ->
           Frag(<<Inst("string_literal", <<>>, Ty("Builtin.RawPointer", ""), <<>>,
                       <<sh.enc>>, fn)>>, base + 1)
      [] sh.s = "function_ref" ->
           Frag(<<Inst("function_ref", <<>>, Ty("@convention(thin)", ""), <<>>,
                       sh.name, fn)>>, base + 1)
      [] sh.s = "metatype" ->
           Frag(<<Inst("metatype", <<>>, Ty("Metatype", sh.elt), <<>>, <<>>, fn)>>,
                base + 1)
      [] sh.s \in {"struct", "enum"} ->
           Bind(buildAll(sh.of, base, fn), LAMBDA kids :
           Frag(kids.is \o <<Inst(sh.s, kids.vs, Ty(sh.ty, sh.elt), <<>>, <<>>, fn)>>,
                base + Len(kids.is) + 1))
      [] sh.s = "unchecked_bitwise_cast" ->
           Bind(buildAll(sh.of, base, fn), LAMBDA kids :
           Frag(kids.is \o <<Inst(sh.s, kids.vs, Ty(sh.ty, ""), <<>>, <<>>, fn)>>,
                base + Len(kids.is) + 1))
      [] sh.s = "builtin" ->
           Bind(buildAll(sh.of, base, fn), LAMBDA kids :
           Frag(kids.is \o <<Inst(sh.s, kids.vs, Ty(sh.ty, ""), <<>>, <<sh.name>>, fn)>>,
                base + Len(kids.is) + 1))
      [] sh.s = "alloc_stack" ->
           Bind(<<Inst("alloc_stack", <<>>, AddrTy(sh.ty, ""), <<>>, <<>>, fn)>>
                    \o buildStores(sh.stores, base + 1, base + 1, fn), LAMBDA head :
           Frag(head \o buildOthers(sh.others, base + Len(head), base + 1, sh.ty, fn),
                base + 1))
      [] sh.s = "array" ->
           LET count == IF sh.count = "lit"
                        THEN Inst("integer_literal", <<>>, Ty("Builtin.Word", ""),
                                  FromInt(sh.n), <<>>, fn)
                        ELSE Inst("argument", <<>>, Ty("Builtin.Word", ""),
                                  <<>>, <<>>, fn)
               ar == base + 2
               up == ar + 1
               rta == ar + sh.upcasts + 1
               ups == [k \in 1..sh.upcasts |->
                          Inst("upcast", <<ar>>, Ty("_ContiguousArrayStorageBase", ""),
                               <<>>, <<>>, fn)]
               rtas == IF sh.upcasts = 0 THEN <<>>
                       ELSE [k \in 1..sh.rtas |->
                                Inst("ref_tail_addr", <<up>>, AddrTy(sh.elt, ""),
                                     <<>>, <<>>, fn)]
               uses == IF sh.upcasts = 0 \/ sh.rtas = 0 THEN <<>>
                       ELSE buildUses(sh.uses, ar + sh.upcasts + sh.rtas, rta, sh.elt)
               struct(name, of) == Inst("struct", <<of>>, Ty(name, sh.elt), <<>>, <<>>, fn)
               wrapped(head, n) ==
                   IF sh.wrap = "bridged"
                   THEN Frag(head \o <<Inst("unchecked_ref_cast", <<ar>>,
                                            Ty("Builtin.BridgeObject", ""), <<>>, <<>>, fn),
                                       struct("_BridgeStorage", n + 1),
                                       struct("_ArrayBuffer", n + 2),
                                       struct("Array", n + 3)>>, n + 4)
                   ELSE Frag(head \o <<struct("_ArrayBuffer", ar), struct("Array", n + 1)>>,
                             n + 2)
           IN  Bind(<<count, Inst("alloc_ref", <<base + 1>>,
                                  Ty("_ContiguousArrayStorage", sh.elt),
                                  <<>>, <<>>, fn)>> \o ups \o rtas \o uses, LAMBDA head :
               wrapped(head, base + Len(head)))
      [] sh.s = "global_array" ->
           Bind(buildAll(sh.elems, base + 1, "g"), LAMBDA elems :
           Bind(base + 1 + Len(elems.is) + 1, LAMBDA obj :
           Frag(<<Inst("integer_literal", <<>>, Ty("Builtin.Word", ""),
                       FromInt(Len(sh.elems)), <<>>, "g")>>
                \o elems.is
                \o <<Inst("object", <<base + 1>> \o elems.vs,
                          Ty("_ContiguousArrayStorage", sh.elt), FromInt(1), <<>>, "g"),
                     Inst("global_value", <<>>, Ty("_ContiguousArrayStorage", sh.elt),
                          <<obj>>, <<"arrayLiteral">>, fn),
                     Inst("struct", <<obj + 1>>, Ty("_ArrayBuffer", sh.elt),
                          <<>>, <<>>, fn),
                     Inst("struct", <<obj + 2>>, Ty("Array", sh.elt), <<>>, <<>>, fn)>>,
                obj + 3)))
      [] sh.s = "empty_array" ->
           Frag(<<Inst("global_addr", <<>>, AddrTy("_SwiftEmptyArrayStorage", ""), <<>>,
                       <<"_swiftEmptyArrayStorage">>, fn),
                  Inst("address_to_pointer", <<base + 1>>, Ty("Builtin.RawPointer", ""),
                       <<>>, <<>>, fn),
                  Inst("raw_pointer_to_ref", <<base + 2>>, Ty("_EmptyArrayStorage", ""),
                       <<>>, <<>>, fn),
                  Inst("unchecked_ref_cast", <<base + 3>>, Ty("Builtin.BridgeObject", ""),
                       <<>>, <<>>, fn),
                  Inst("struct", <<base + 4>>, Ty("_BridgeStorage", sh.elt),
                       <<>>, <<>>, fn),
                  Inst("struct", <<base + 5>>, Ty("_ArrayBuffer", sh.elt), <<>>, <<>>, fn),
                  Inst("struct", <<base + 6>>, Ty("Array", sh.elt), <<>>, <<>>, fn)>>,
                base + 7)

\* the function that holds the fragment f alone
codeOf(f) == [a |-> f.is, b |-> bodyOf(f.is), v |-> f.v]

(***************************************************************************)
(* The resolvers on one value: a specification that draws a value and      *)
(* applies getScalarOperand, getAttrOperand or decodeArrayElements to it.  *)
(***************************************************************************)
IntTypes == {"Builtin.Int1", "Builtin.Int8", "Builtin.Int16", "Builtin.Int32",
             "Builtin.Int64", "Builtin.Word", "Builtin.Int128", "Builtin.Int2048"}

FloatTypes == {"Builtin.FPIEEE16", "Builtin.FPIEEE32", "Builtin.FPIEEE64",
               "Builtin.FPIEEE80"}

LitValues == {<<>>, <<1>>, <<LimbBase - 1>>, Pow2(32)}

\* the value fits a literal of the type
Fits(val, tyName) ==
    IF tyName = "Builtin.Int1" THEN val \in {<<>>, <<1>>}
    ELSE Len(val) * 8 <= getBitWidth(tyName)

\* the kinds of use of a tail address that are drawn, by number: a direct
\* store; a store through index_addr with literal index 0..MaxElems; an
\* index_addr without use, with two stores, with a load; a store through an
\* index_addr whose index is no literal; a load of the tail address
UseKinds == 1..(MaxElems + 7)

UseOfKind(kind, pos) ==
    LET src == IntLit("Builtin.Int64", FromInt(pos))
    IN  IF kind = 1 THEN StoreUse(src)
        ELSE IF kind <= MaxElems + 2 THEN IndexUse(kind - 2, "store", src)
        ELSE IF kind = MaxElems + 3 THEN IndexUse(0, "none", src)
        ELSE IF kind = MaxElems + 4 THEN IndexUse(0, "store2", src)
        ELSE IF kind = MaxElems + 5 THEN IndexUse(0, "load", src)
        ELSE IF kind = MaxElems + 6 THEN IndexArgUse(src)
        ELSE LoadUse

UseLists == UNION {[1..n -> UseKinds] : n \in 0..MaxUses}

ValueArg(fam, ty, val, n, uses, count, upcasts, rtas, wrap, links) ==
    [fam |-> fam, ty |-> ty, val |-> val, n |-> n, uses |-> uses, count |-> count,
     upcasts |-> upcasts, rtas |-> rtas, wrap |-> wrap, links |-> links]

\* the arrays of the allocation idiom that are drawn
IdiomArgs ==
    {ValueArg("idiom", "Int", <<>>, n, uses, "lit", 1, 1, "native", <<>>) :
        n \in 0..MaxElems, uses \in UseLists}
    \cup
    {ValueArg("idiom", "Int", <<>>, 1, <<1>>, count, upcasts, rtas, wrap, <<>>) :
        count \in {"lit", "arg"}, upcasts \in 0..2, rtas \in 0..2,
        wrap \in {"native", "bridged"}}

\* the literals that are drawn
LiteralArgs ==
    {ValueArg("int", ty, val, 0, <<>>, "", 0, 0, "", <<>>) :
        ty \in IntTypes, val \in {v \in LitValues : TRUE}}
    \cup
    {ValueArg("float", ty, val, 0, <<>>, "", 0, 0, "", <<>>) :
        ty \in FloatTypes, val \in {<<>>, <<1>>}}

\* the instructions drawn for the chain of a String value, by name: a struct
\* of one, two and no operands; an enum with and without payload; a bitwise
\* cast; the four builtins the loop looks through, and one it does not
StructLinks == {"struct", "struct2", "struct0"}

ChainLinks ==
    StructLinks \cup {"enum", "enum0", "cast", "And", "Or", "ZExtOrBitCast", "PtrToInt", "Xor"}

\* the values drawn for the end of a chain: a string_literal of either
\* encoding, a block argument, an integer literal
ChainEnds == {"utf8", "utf16", "arg", "int"}

ChainEnd(end) ==
    CASE end \in {"utf8", "utf16"} -> StringLit(end)
      [] end = "arg" -> Arg(Ty("Builtin.RawPointer", ""))
      [] end = "int" -> IntLit("Builtin.Word", <<1>>)

LinkShape(link, tyName, inner) ==
    CASE link = "struct" -> Struct(tyName, <<inner>>)
      [] link = "struct2" -> Struct(tyName, <<inner, IntLit("Builtin.Word", <<1>>)>>)
      [] link = "struct0" -> Struct(tyName, <<>>)
      [] link = "enum" -> Enum(tyName, <<inner>>)
      [] link = "enum0" -> Enum(tyName, <<>>)
      [] link = "cast" -> BitwiseCast(tyName, <<inner>>)
      [] link \in {"And", "Or", "Xor"} ->
           BuiltinValue(link, tyName, <<inner, IntLit("Builtin.Word", <<1>>)>>)
      [] link \in {"ZExtOrBitCast", "PtrToInt"} -> BuiltinValue(link, tyName, <<inner>>)

\* the value of type tyName whose chain has the links, outermost first
RECURSIVE StringChain(_, _, _)
StringChain(links, tyName, end) ==
    IF links = <<>> THEN ChainEnd(end)
    ELSE LinkShape(Head(links), tyName, StringChain(Tail(links), "_StringCore", end))

ChainLists ==
    {l \in UNION {[1..n -> ChainLinks] : n \in 1..(MaxLinks + 1)} : l[1] \in StructLinks}

\* the values of type String that are drawn: a String struct over a chain,
\* and a block argument of type String
StringArgs ==
    {ValueArg("string", "String", <<>>, 0, <<>>, "", 0, 0, end, links) :
        links \in ChainLists, end \in ChainEnds}
    \cup {ValueArg("string", "String", <<>>, 0, <<>>, "", 0, 0, "arg", <<>>)}

\* the values drawn for the inside of nested wrappers: an integer literal, a
\* struct of two operands, a struct without operands, a block argument
WrapCores == {"int", "pair", "unit", "arg"}

WrapCore(core) ==
    CASE core = "int" -> IntLit("Builtin.Int64", <<1>>)
      [] core = "pair" ->
           Struct("Pair", <<IntLit("Builtin.Int64", <<1>>), IntLit("Builtin.Int64", <<2>>)>>)
      [] core = "unit" -> Struct("Unit", <<>>)
      [] core = "arg" -> Arg(Ty("Int", ""))

\* the value inside k nested single-operand structs
RECURSIVE Wrapped(_, _)
Wrapped(k, inner) == IF k = 0 THEN inner ELSE Struct("Wrapper", <<Wrapped(k - 1, inner)>>)

WrappedArgs ==
    {ValueArg("wrapped", "Wrapper", <<>>, k, <<>>, "", 0, 0, core, <<>>) :
        k \in 0..MaxWraps, core \in WrapCores}

\* the uses of a stack slot that are no store
OtherUses == {"copy_addr", "load", "dealloc_stack"}

OtherLists == UNION {[1..n -> OtherUses] : n \in 0..MaxOthers}

\* the addresses that are drawn: a stack slot with n stores and other uses,
\* and a block argument that is an address
AddressArgs ==
    {ValueArg("stack", "Int", <<>>, n, <<>>, "", 0, 0, "local", others) :
        n \in 0..MaxStores, others \in OtherLists}
    \cup {ValueArg("stack", "Int", <<>>, 0, <<>>, "", 0, 0, "argument", <<>>)}

\* the elements drawn for an array: an integer literal, an Int, a block
\* argument, a literal of 128 bits, an Int inside a second struct, an array of
\* one constant, an array of one block argument
ElemKinds == {"lit", "Int", "arg", "wide", "double", "nested", "badnested"}

\* those of them that the static initializer of a global can hold
StaticElemKinds == {"lit", "Int", "wide", "double"}

ElemShape(kind) ==
    CASE kind = "lit" -> IntLit("Builtin.Int64", <<1>>)
      [] kind = "Int" -> IntOf(<<1>>)
      [] kind = "arg" -> Arg(Ty("Int", ""))
      [] kind = "wide" -> IntLit("Builtin.Int128", <<1>>)
      [] kind = "double" -> Struct("Wrapper", <<IntOf(<<1>>)>>)
      [] kind = "nested" -> ArrayLiteral("Int", <<IntOf(<<1>>)>>)
      [] kind = "badnested" -> ArrayLiteral("Int", <<Arg(Ty("Int", ""))>>)

\* the arrays with elements of these kinds that are drawn: array literals of
\* the function, and arrays moved to a static initializer
ElementArgs ==
    {ValueArg("elems", "Int", <<>>, Len(kinds), <<>>, "", 0, 0, "native", kinds) :
        kinds \in UNION {[1..n -> ElemKinds] : n \in 0..MaxElems}}
    \cup
    {ValueArg("elems", "Int", <<>>, Len(kinds), <<>>, "", 0, 0, "global", kinds) :
        kinds \in UNION {[1..n -> StaticElemKinds] : n \in 0..MaxElems}}

ValueShape(x) ==
    CASE x.fam = "elems" ->
           IF x.wrap = "native"
           THEN ArrayLiteral(x.ty, [k \in 1..x.n |-> ElemShape(x.links[k])])
           ELSE GlobalArray(x.ty, [k \in 1..x.n |-> ElemShape(x.links[k])])
      [] x.fam = "wrapped" -> Wrapped(x.n, WrapCore(x.wrap))
      [] x.fam = "stack" ->
           IF x.wrap = "local"
           THEN AllocStack(x.ty, [k \in 1..x.n |-> IntOf(FromInt(k))], x.links)
           ELSE Arg(AddrTy(x.ty, ""))
      [] x.fam = "string" ->
           IF x.links = <<>> THEN Arg(Ty("String", ""))
           ELSE StringChain(x.links, "String", x.wrap)
      [] x.fam = "idiom" ->
           ArrayOf(x.ty, x.count, x.n, x.upcasts, x.rtas,
                   [k \in 1..Len(x.uses) |-> UseOfKind(x.uses[k], k)], x.wrap)
      [] x.fam = "int" -> IntLit(x.ty, x.val)
      [] x.fam = "float" -> FloatLit(x.ty, x.val)

NoResult == [op |-> "", v |-> NullValue, arr |-> ArrayFail]

InitValue(x) ==
    LET code == codeOf(build(ValueShape(x), 0, "f"))
    IN  /\ arg = x
        /\ ir = code.a
        /\ body = code.b
        /\ inst = code.v
        /\ info = NoInfo
        /\ diags = <<>>
        /\ err = NoError
        /\ ret = NullValue
        /\ pc = "value"
        /\ snap = [ir |-> code.a, body |-> code.b, inst |-> code.v, info |-> NoInfo]
        /\ res = NoResult

InitAttr ==
    \E x \in IdiomArgs \cup {y \in LiteralArgs : Fits(y.val, y.ty) \/ y.fam = "float"}
                \cup StringArgs \cup WrappedArgs \cup AddressArgs \cup ElementArgs :
        InitValue(x)

ResolveScalar ==
    /\ pc = "value"
    /\ res' = [op |-> "getScalarOperand", v |-> getScalarOperand(ir, body, inst),
               arr |-> ArrayFail]
    /\ pc' = "resolved"
    /\ UNCHANGED <<ir, body, inst, info, diags, err, ret, snap, arg>>

ResolveAttr ==
    /\ pc = "value"
    /\ \E r \in {getAttrOperand(ir, body, inst)} :
           IF r = Undefined
           THEN /\ pc' \in UBOutcomes
                /\ res' = [op |-> "getAttrOperand", v |-> NullValue, arr |-> ArrayFail]
           ELSE /\ pc' = "resolved"
                /\ res' = [op |-> "getAttrOperand", v |-> r, arr |-> ArrayFail]
    /\ UNCHANGED <<ir, body, inst, info, diags, err, ret, snap, arg>>

DecodeArray ==
    /\ pc = "value"
    /\ res' = [op |-> "decodeArrayElements", v |-> NullValue,
               arr |-> decodeArrayElements(ir, body, inst)]
    /\ pc' = "resolved"
    /\ UNCHANGED <<ir, body, inst, info, diags, err, ret, snap, arg>>

NextAttr == ResolveScalar \/ ResolveAttr \/ DecodeArray

SpecAttr == InitAttr /\ [][NextAttr]_vars

(***************************************************************************)
(* The array decoder on the allocation idiom, read off the instructions.   *)
(***************************************************************************)
\* the alloc_ref of the array drawn
IdiomAllocRef == CHOOSE v \in 1..Len(ir) : ir[v].kind = "alloc_ref"

\* the instructions of the function that use v
UsersOf(v) == {u \in Range(body) : \E k \in 1..Len(ir[u].ops) : ir[u].ops[k] = v}

IdiomUpcasts == {u \in UsersOf(IdiomAllocRef) : ir[u].kind = "upcast"}

IdiomTails ==
    {t \in Range(body) : ir[t].kind = "ref_tail_addr" /\ ir[t].ops[1] \in IdiomUpcasts}

IdiomTail == CHOOSE t \in IdiomTails : TRUE

\* the literal element count N of the allocation
IdiomCount == SmallVal(ir[ir[IdiomAllocRef].ops[1]].val)

\* the allocation has a literal count, one upcast user, and that upcast has
\* one tail-address user
IdiomPrecondition ==
    /\ arg.fam = "idiom"
    /\ ir[ir[IdiomAllocRef].ops[1]].kind = "integer_literal"
    /\ Cardinality(IdiomUpcasts) = 1
    /\ Cardinality(IdiomTails) = 1

\* u is an index computation off the tail address with a literal index
IsLiteralIndex(u) ==
    /\ ir[u].kind = "index_addr"
    /\ ir[u].ops[1] = IdiomTail
    /\ ir[ir[u].ops[2]].kind = "integer_literal"

\* s is a store that writes element i of the array
IsStoreTo(s, i) ==
    /\ ir[s].kind = "store"
    /\ \/ i = 0 /\ ir[s].ops[2] = IdiomTail
       \/ /\ IsLiteralIndex(ir[s].ops[2])
          /\ ir[ir[ir[s].ops[2]].ops[2]].val = FromInt(i)
          /\ UsersOf(ir[s].ops[2]) = {s}

\* the uses of the tail address are exactly N stores that cover 0..N-1 once
IdiomStoresCover ==
    /\ \A u \in UsersOf(IdiomTail) :
          \/ \E i \in 0..(IdiomCount - 1) : IsStoreTo(u, i)
          \/ /\ IsLiteralIndex(u)
             /\ \E s \in UsersOf(u) : \E i \in 0..(IdiomCount - 1) : IsStoreTo(s, i)
    /\ \A i \in 0..(IdiomCount - 1) :
          Cardinality({s \in Range(body) : IsStoreTo(s, i)}) = 1

\* C3: on the allocation idiom (literal count N, one upcast user, one
\* tail-address user of it) decodeArrayElements succeeds iff the uses of the
\* tail address are exactly N stores covering each index 0..N-1 once, and on
\* success element i is the source value of the store to index i.
C3_ArrayIdiomDecoding ==
    (pc = "resolved" /\ res.op = "decodeArrayElements" /\ IdiomPrecondition) =>
        /\ res.arr.ok <=> IdiomStoresCover
        /\ res.arr.ok =>
              /\ Len(res.arr.elements) = IdiomCount
              /\ \A i \in 0..(IdiomCount - 1) :
                    \E s \in Range(body) :
                        IsStoreTo(s, i) /\ res.arr.elements[i + 1] = ir[s].ops[1]

\* an array of two elements, one stored directly and one through an index
\* computation, was decoded
C3_Witness ==
    /\ pc = "resolved" /\ res.op = "decodeArrayElements" /\ IdiomPrecondition
    /\ res.arr.ok
    /\ Len(res.arr.elements) = 2
    /\ \E s \in Range(body) : IsStoreTo(s, 0) /\ ir[s].ops[2] = IdiomTail
    /\ res.arr.elements[1] # res.arr.elements[2]

\* C9: getAttrOperand of an integer literal is the literal when its bit width
\* is <= 64 and null when it is wider; of a floating-point literal it is the
\* literal.
C9_LiteralWidth ==
    (pc = "resolved" /\ res.op = "getAttrOperand" /\ arg.fam \in {"int", "float"}) =>
        IF ir[inst].kind = "float_literal" THEN res.v = inst
        ELSE IF getBitWidth(ir[inst].ty.name) <= 64 THEN res.v = inst
        ELSE res.v = NullValue

\* an integer literal of exactly 64 bits was resolved to itself
C9_Witness ==
    /\ pc = "resolved" /\ res.op = "getAttrOperand" /\ arg.fam = "int"
    /\ ir[inst].kind = "integer_literal"
    /\ getBitWidth(ir[inst].ty.name) = 64
    /\ res.v = inst

(***************************************************************************)
(* The instruction under analysis, for the specifications below.           *)
(***************************************************************************)
\* an instruction of the function with the values of the shapes as operands
buildInst(kind, name, shapes, ty) ==
    Bind(buildAll(shapes, 0, "f"), LAMBDA operands :
    Bind(operands.is
           \o <<[Inst(kind, operands.vs, ty, <<>>, name, "f") EXCEPT !.loc = "op"]>>,
         LAMBDA a :
    [a |-> a, b |-> bodyOf(a), v |-> Len(a)]))

\* the code followed by n instructions that use the result of its
\* instruction, each at its own place of the function
withUsers(code, n) ==
    Bind(code.a \o [k \in 1..n |->
                       [Inst("strong_release", <<code.v>>, Ty("()", ""), <<>>, <<>>, "f")
                          EXCEPT !.loc = "user"]], LAMBDA a :
    [a |-> a, b |-> bodyOf(a), v |-> code.v])

InitInst(x, code) ==
    /\ arg = x
    /\ ir = code.a
    /\ body = code.b
    /\ inst = code.v
    /\ info = NoInfo
    /\ diags = <<>>
    /\ err = NoError
    /\ ret = NullValue
    /\ pc = "ready"
    /\ snap = [ir |-> code.a, body |-> code.b, inst |-> code.v, info |-> NoInfo]
    /\ res = NoResult

TensorHandleTy == Ty("TensorHandle", "Float")

(***************************************************************************)
(* The name encoding: a name is built from an op name and role entries the *)
(* way canonicalizeOperands builds it, and decoded.                        *)
(***************************************************************************)
\* one ",<attrName><suffix>" segment per entry
RECURSIVE emitSegments(_)
emitSegments(attributes) ==
    IF attributes = <<>> THEN <<>>
    ELSE <<",">> \o Head(attributes).first
             \o getAttributeModifierSuffix(Head(attributes).second)
             \o emitSegments(Tail(attributes))

emitName(opName, attributes) == TFOP_PREFIX \o opName \o emitSegments(attributes)

ADD == <<"A", "d", "d">>

CONST == <<"C", "o", "n", "s", "t">>

\* op names (anything up to the first ',') and attribute names (anything
\* without ',' and '$') as the parser produces them
OpNames == {ADD, <<"A", "$", "1">>}

AttrNames == {<<"x">>, <<"d", "t">>, <<>>}

Entries == {AttributeEntry(n, m) : n \in AttrNames, m \in AttributeModifiers}

EntryLists == UNION {[1..n -> Entries] : n \in 0..MaxEntries}

InitName ==
    \E opName \in OpNames, entries \in EntryLists :
        InitInst([fam |-> "name", opName |-> opName, entries |-> entries],
                 buildInst("builtin", emitName(opName, entries),
                           [k \in 1..Len(entries) |-> IntLit("Builtin.Int64", <<1>>)],
                           TensorHandleTy))

NextName == Decode

SpecName == InitName /\ [][NextName]_vars

\* C1: a name built from an op name and a list of (attribute name, role)
\* entries decodes to exactly that op name and that list of entries.
C1_NameRoundTrip ==
    (arg.fam = "name" /\ pc # "ready") =>
        /\ pc = "decoded"
        /\ info.opName = arg.opName
        /\ info.attributes = arg.entries
        /\ diags = <<>>

\* a name with an Array entry followed by an ArrayElement entry without a
\* name was built and decoded
C1_Witness ==
    /\ arg.fam = "name" /\ pc = "decoded"
    /\ Len(arg.entries) = 2
    /\ arg.entries[1] = AttributeEntry(<<"x">>, "Array")
    /\ arg.entries[2] = AttributeEntry(<<>>, "ArrayElement")
    /\ info.attributes = arg.entries

(***************************************************************************)
(* The tensor/shape count check: a Const op with a tensor of S scalars and *)
(* a shape, decoded and validated.                                         *)
(***************************************************************************)
\* the array literal of the elements as the compiler lowers it: the empty
\* array is the well-known empty storage
ArrayValue(elt, elems) ==
    IF elems = <<>> THEN EmptyArray(elt) ELSE ArrayLiteral(elt, elems)

\* an [Int] literal of the values
IntArray(vals) == ArrayValue("Int", [k \in 1..Len(vals) |-> IntOf(vals[k])])

\* the dimensions drawn: 0, 1, 2, 3 and 2^32
DimValues == {<<>>, <<1>>, <<2>>, <<3>>, Pow2(32)}

DimLists == UNION {[1..n -> DimValues] : n \in 0..MaxDims}

\* the mathematical product of the dimensions
RECURSIVE Product(_)
Product(dims) == IF dims = <<>> THEN <<1>> ELSE NatMul(Head(dims), Product(Tail(dims)))

InitTensor ==
    \E scalars \in 0..MaxScalars, dims \in DimLists :
        InitInst([fam |-> "tensor", scalars |-> scalars, dims |-> dims],
                 buildInst("builtin",
                           emitName(CONST, <<AttributeEntry(VALUE, "Tensor"),
                                             AttributeEntry(VALUE, "Shape")>>),
                           <<IntArray([k \in 1..scalars |-> FromInt(k)]),
                             IntArray(dims)>>,
                           TensorHandleTy))

NextTensor == Decode \/ Check

SpecTensor == InitTensor /\ [][NextTensor]_vars

\* C4: a Tensor attribute of S constant scalars followed by its constant
\* integer Shape is accepted iff the product of the dimensions equals S, and
\* the error of a rejection holds the product and S.
C4_CountCheck ==
    (arg.fam = "tensor" /\ pc = "checked") =>
        /\ err = NoError <=> Product(arg.dims) = FromInt(arg.scalars)
        /\ err # NoError => err = CountError(Product(arg.dims), FromInt(arg.scalars))

\* the same, for the shapes whose product is below 2^64
C4_CountCheckBelowWrap ==
    (arg.fam = "tensor" /\ pc = "checked" /\ Len(Product(arg.dims)) <= NumLimbs) =>
        /\ err = NoError <=> Product(arg.dims) = FromInt(arg.scalars)
        /\ err # NoError => err = CountError(Product(arg.dims), FromInt(arg.scalars))

\* Scenario C: 4 scalars with shape [2,2] were accepted
C4_ScenarioC ==
    /\ arg.fam = "tensor" /\ pc = "checked"
    /\ arg.scalars = 4 /\ arg.dims = <<(<<2>>), (<<2>>)>>
    /\ err = NoError

\* no scalars with shape [2^32, 2^32] were accepted
C4_WrapAccepted ==
    /\ arg.fam = "tensor" /\ pc = "checked"
    /\ arg.scalars = 0 /\ arg.dims = <<Pow2(32), Pow2(32)>>
    /\ err = NoError

(***************************************************************************)
(* The pass on one instruction: an op with input operands and attribute    *)
(* segments, or a call of a well-known function.                           *)
(***************************************************************************)
\* the input operands drawn: a TensorHandle; an Int; an Int wrapped in one
\* more single-operand struct; a stack slot with one store of an Int; a stack
\* slot without a store; a value of a type TensorFlow has no dtype for
InputKinds == {"handle", "int", "nested", "stack", "unstored", "pointer"}

InputShape(kind) ==
    CASE kind = "handle" -> Arg(TensorHandleTy)
      [] kind = "int" -> IntOf(<<1>>)
      [] kind = "nested" -> Struct("Wrapper", <<IntOf(<<1>>)>>)
      [] kind = "stack" -> AllocStack("Int", <<IntOf(<<1>>)>>, <<>>)
      [] kind = "unstored" -> AllocStack("Int", <<>>, <<>>)
      [] kind = "pointer" -> Arg(Ty("Builtin.RawPointer", ""))

InputLists == UNION {[1..n -> InputKinds] : n \in 0..MaxInputs}

\* a String value: struct $String over its utf8 string_literal
StringOf == Struct("String", <<[s |-> "string_literal", enc |-> "utf8"]>>)

ATTR == <<"a", "t", "t", "r">>

Segment(seg, val) == [seg |-> seg, val |-> val]

\* the attribute segments drawn, each with the value of its operand
AttrCatalog ==
    <<Segment(<<"x">>, Arg(TensorHandleTy)),
      Segment(<<"y">>, Arg(TensorHandleTy)),
      Segment(<<"a">>, IntLit("Builtin.Int64", <<1>>)),
      Segment(<<"a">>, IntOf(<<1>>)),
      Segment(<<"T", "$", "d", "t", "y", "p", "e">>, IntLit("Builtin.Int32", <<1>>)),
      Segment(VALUE \o <<"$", "t", "e", "n", "s", "o", "r">>, IntArray(<<(<<1>>), (<<2>>)>>)),
      Segment(VALUE \o <<"$", "s", "h", "a", "p", "e">>, IntArray(<<(<<2>>)>>)),
      Segment(VALUE \o <<"$", "t", "e", "n", "s", "o", "r">>,
              ArrayLiteral("Int", <<IntOf(<<1>>), Arg(Ty("Int", ""))>>)),
      Segment(VALUE \o <<"$", "t", "e", "n", "s", "o", "r">>,
              ArrayOf("Int", "arg", 1, 1, 1, <<StoreUse(IntOf(<<1>>))>>, "native")),
      Segment(<<"d", "i", "m", "s">>, IntArray(<<(<<1>>), (<<2>>)>>)),
      Segment(<<"d", "i", "m", "s">>, GlobalArray("Int", <<IntOf(<<1>>), IntOf(<<2>>)>>)),
      Segment(<<"n", "a", "m", "e", "s">>, ArrayLiteral("String", <<StringOf>>)),
      Segment(<<"b", "$", "b", "o", "g", "u", "s">>, IntLit("Builtin.Int64", <<1>>)),
      Segment(<<"c", "$", "f", "o", "o">>, IntLit("Builtin.Int64", <<1>>)),
      Segment(ATTR \o <<"$">>, IntLit("Builtin.Int64", <<1>>)),
      Segment(ATTR, IntLit("Builtin.Int64", <<1>>)),
      Segment(<<"f">>, FloatLit("Builtin.FPIEEE32", <<1>>)),
      Segment(<<"r", "o", "w", "s">>, ArrayLiteral("Array", <<IntArray(<<(<<1>>)>>)>>)),
      Segment(<<"n", "a", "m", "e", "s">>, GlobalArray("String", <<StringOf>>)),
      Segment(<<"d", "i", "m", "s", "$", "s", "h", "a", "p", "e">>, IntArray(<<(<<2>>)>>)),
      Segment(VALUE \o <<"$", "s", "h", "a", "p", "e">>, IntArray(<<(<<3>>)>>)),
      Segment(<<"a", "$", "e", "l", "t">>, IntLit("Builtin.Int64", <<1>>))>>

AttrLists == UNION {[1..n -> 1..Len(AttrCatalog)] : n \in 0..MaxAttrs}

\* the segments of an op drawn
SegmentsOf(x) == [k \in 1..Len(x.attrs) |-> AttrCatalog[x.attrs[k]].seg]

\* the name of an op as the #tfop syntax writes it: the op name and one
\* ",<segment>" per attribute
RECURSIVE joinSegments(_)
joinSegments(segs) ==
    IF segs = <<>> THEN <<>> ELSE <<",">> \o Head(segs) \o joinSegments(Tail(segs))

InitBuiltin ==
    \E opName \in {ADD, CONST}, inputs \in InputLists, attrs \in AttrLists,
       users \in 0..MaxUsers :
        LET x == [fam |-> "builtin", opName |-> opName, inputs |-> inputs,
                  attrs |-> attrs, users |-> users]
        IN  InitInst(x, withUsers(
                buildInst("builtin",
                          TFOP_PREFIX \o opName \o joinSegments(SegmentsOf(x)),
                          [k \in 1..Len(inputs) |-> InputShape(inputs[k])]
                              \o [k \in 1..Len(attrs) |-> AttrCatalog[attrs[k]].val],
                          TensorHandleTy), users))

\* the well-known functions, and one that is none
FROM_SCALARS == "__tf_tensor_from_scalars"

FROM_SCALARS_1D == "__tf_tensor_from_scalars_1d"

ApplyFns == {FROM_SCALARS, FROM_SCALARS_1D, "__tf_other"}

\* the scalars operand drawn: n elements, constants or arguments
ScalarsArgs ==
    {[n |-> n, const |-> c] : n \in 0..MaxScalars, c \in BOOLEAN} \ {[n |-> 0, const |-> FALSE]}

ScalarsShape(x) ==
    IF x.const THEN IntArray([k \in 1..x.n |-> FromInt(k)])
    ELSE ArrayLiteral("Int", [k \in 1..x.n |-> Arg(Ty("Int", ""))])

\* the shape operand drawn: an [Int] literal of the dimensions; an [Int] with
\* an element that is no constant; an Int; a [Float] literal
DimsArgs ==
    {[kind |-> "ints", dims |-> d] : d \in DimLists}
    \cup {[kind |-> k, dims |-> <<>>] : k \in {"nonconst", "scalar", "floats"}}

DimsShape(x) ==
    CASE x.kind = "ints" -> IntArray(x.dims)
      [] x.kind = "nonconst" -> ArrayLiteral("Int", <<Arg(Ty("Int", ""))>>)
      [] x.kind = "scalar" -> IntOf(<<2>>)
      [] x.kind = "floats" ->
           ArrayLiteral("Float", <<Struct("Float", <<FloatLit("Builtin.FPIEEE32", <<1>>)>>)>>)

InitApply ==
    \E fn \in ApplyFns, scalars \in ScalarsArgs, dims \in DimsArgs :
        /\ fn # FROM_SCALARS => dims = [kind |-> "ints", dims |-> <<>>]
        /\ InitInst([fam |-> "apply", fn |-> fn, scalars |-> scalars, dims |-> dims],
                    buildInst("apply", <<fn>>,
                              <<[s |-> "function_ref", name |-> <<fn>>],
                                ScalarsShape(scalars)>>
                                  \o (IF fn = FROM_SCALARS THEN <<DimsShape(dims)>>
                                      ELSE <<>>),
                              TensorHandleTy))

Init == InitBuiltin \/ InitApply

Next == Decode \/ Check \/ Canonicalize \/ DecodeApply

Spec == Init /\ [][Next]_vars

(***************************************************************************)
(* The op drawn, read off the segments it was written with.                *)
(***************************************************************************)
IsBuiltin == arg.fam = "builtin"

\* the text after the first '$' of a segment
SuffixOf(seg) == drop_front(seg, find(seg, "$") + 1)

HasDollar(seg) == \E i \in 1..Len(seg) : seg[i] = "$"

\* the segment has a '$' that none of tensor, shape, dtype, array, elt follows
UnknownSuffix(seg) ==
    /\ HasDollar(seg)
    /\ \A m \in AttributeModifiers \ {"Normal"} :
          <<"$">> \o SuffixOf(seg) # getAttributeModifierSuffix(m)

UnknownSegments == {k \in 1..Len(arg.attrs) : UnknownSuffix(SegmentsOf(arg)[k])}

FirstUnknown == CHOOSE k \in UnknownSegments : \A j \in UnknownSegments : k <= j

\* every input operand is a TensorHandle or resolves to a scalar of a type
\* TensorFlow has a dtype for
InputsRecognized == \A k \in 1..Len(arg.inputs) : arg.inputs[k] # "pointer"

\* decode has returned
DecodeReturned == pc \in {"decoded", "rejected"}

\* C7: for every attribute segment name$s with s none of tensor, shape,
\* dtype, array, elt, decode fails and emits exactly one tfop_invalid_tfop
\* diagnostic whose message holds s.
C7_EveryUnknownSuffixDiagnosed ==
    (IsBuiltin /\ pc # "ready") =>
        \A k \in UnknownSegments :
            /\ pc = "rejected"
            /\ Len(diags) = 1
            /\ diags[1].id = "tfop_invalid_tfop"
            /\ SuffixOf(SegmentsOf(arg)[k]) # <<>> =>
                   diags[1].suffix = SuffixOf(SegmentsOf(arg)[k])

\* C7 as the code has it: when decode returns on an op with an unknown
\* suffix it has failed with exactly one tfop_invalid_tfop diagnostic; with
\* recognized inputs that diagnostic is "invalid attribute modifier" with the
\* suffix of the first such segment, otherwise it is the diagnostic of the
\* input.
C7_FirstUnknownSuffixDiagnosed ==
    (IsBuiltin /\ DecodeReturned /\ UnknownSegments # {}) =>
        /\ pc = "rejected"
        /\ Len(diags) = 1
        /\ diags[1].id = "tfop_invalid_tfop"
        /\ IF InputsRecognized
           THEN /\ diags[1].problem = "invalid attribute modifier"
                /\ diags[1].suffix = SuffixOf(SegmentsOf(arg)[FirstUnknown])
           ELSE diags[1].problem = "operand has unrecognized type"

\* an op whose second segment is b$bogus, after a recognized input and a
\* segment with a known suffix, was rejected with the diagnostic of bogus
C7_Witness ==
    /\ IsBuiltin /\ pc = "rejected"
    /\ arg.inputs = <<"int">>
    /\ Len(arg.attrs) = 2
    /\ SegmentsOf(arg)[1] = <<"T", "$", "d", "t", "y", "p", "e">>
    /\ SegmentsOf(arg)[2] = <<"b", "$", "b", "o", "g", "u", "s">>
    /\ diags = <<diagInvalid("invalid attribute modifier", <<"b", "o", "g", "u", "s">>, "")>>

\* the op has the one segment seg and no input
OnlySegment(seg) ==
    IsBuiltin /\ arg.inputs = <<>> /\ SegmentsOf(arg) = <<seg>>

\* C8: the segments 'attr' and 'attr$' both parse to (attr, Normal), without
\* a diagnostic.
C8_EmptySuffixIsNormal ==
    (DecodeReturned /\ (OnlySegment(ATTR) \/ OnlySegment(ATTR \o <<"$">>))) =>
        /\ pc = "decoded"
        /\ info.attributes = <<AttributeEntry(ATTR, "Normal")>>
        /\ diags = <<>>

\* C8 as the code has it: the segment 'attr' parses to (attr, Normal) without
\* a diagnostic; the segment 'attr$' is rejected with the diagnostic of an
\* invalid, empty modifier.
C8_AbsentDollarIsNormal ==
    /\ (DecodeReturned /\ OnlySegment(ATTR)) =>
          /\ pc = "decoded"
          /\ info.attributes = <<AttributeEntry(ATTR, "Normal")>>
          /\ diags = <<>>
    /\ (DecodeReturned /\ OnlySegment(ATTR \o <<"$">>)) =>
          /\ pc = "rejected"
          /\ diags = <<diagInvalid("invalid attribute modifier", <<>>, "")>>

\* the segment 'attr$' was rejected
C8_Witness ==
    /\ OnlySegment(ATTR \o <<"$">>)
    /\ pc = "rejected"
    /\ Len(diags) = 1
    /\ diags[1].suffix = <<>>

\* Scenario A: the op Add,x,y with two TensorHandle operands
ScenarioA ==
    /\ IsBuiltin /\ arg.opName = ADD /\ arg.inputs = <<>>
    /\ SegmentsOf(arg) = <<(<<"x">>), (<<"y">>)>>
    /\ \A k \in 1..2 : AttrCatalog[arg.attrs[k]].val = Arg(TensorHandleTy)

\* C5: Scenario A decodes to the op Add with both operands inputs, and
\* canonicalizeOperands returns the instruction without creating or erasing
\* an instruction.
C5_ScenarioA ==
    (ScenarioA /\ pc # "ready") =>
        /\ pc \notin {"rejected"} \cup UBOutcomes
        /\ pc = "decoded" =>
              /\ info.opName = ADD
              /\ info.numInputs = 2
              /\ info.attributes = <<>>
        /\ pc = "checked" => err = NoError
        /\ pc = "canonical" => ret = snap.inst /\ ir = snap.ir /\ body = snap.body

\* Scenario A was decoded with both operands attributes, and the validator
\* refused the first
C5_OperandsAreAttributes ==
    /\ ScenarioA /\ pc = "checked"
    /\ info.numInputs = 0
    /\ info.attributes = <<AttributeEntry(<<"x">>, "Normal"), AttributeEntry(<<"y">>, "Normal")>>
    /\ err = AttrError("requires a constant argument", <<"x">>)

\* Scenario B: the op Const,value$tensor whose operand is an array that
\* decodeArrayElements cannot decode, or that has an element that is no
\* constant
ScenarioB ==
    /\ OnlySegment(VALUE \o <<"$", "t", "e", "n", "s", "o", "r">>)
    /\ arg.opName = CONST
    /\ LET code == codeOf(build(AttrCatalog[arg.attrs[1]].val, 0, "f"))
           arr == decodeArrayElements(code.a, code.b, code.v)
       IN  \/ ~arr.ok
           \/ \E k \in 1..Len(arr.elements) :
                 getAttrOperand(code.a, code.b, arr.elements[k]) = NullValue

\* C6: in Scenario B checkAttributeConstants returns the error that names
\* 'value' and says it requires an array of constant values.
C6_ScenarioB ==
    (ScenarioB /\ pc = "checked") =>
        err = AttrError("requires an array of constant values", VALUE)

\* Scenario B with the array whose count is no literal was refused with the
\* error of a non-constant argument
C6_ConstantArgument ==
    /\ ScenarioB /\ pc = "checked"
    /\ ~decodeArrayElements(ir, body, ir[inst].ops[1]).ok
    /\ err = AttrError("requires a constant argument", VALUE)

\* C10: when checkAttributeConstants returns an error, and when decodeApply
\* returns the original call, the function holds the instructions it held
\* before the call.
C10_FaultLeavesIR ==
    ((pc = "checked" /\ err # NoError) \/ (pc = "applied" /\ ret = inst)) =>
        ir = snap.ir /\ body = snap.body

\* decodeApply returned the original call with the diagnostic of the counts
\* and left instructions it created in the function
C10_InstructionsLeft ==
    /\ pc = "applied" /\ ret = inst
    /\ Len(diags) = 1
    /\ Len(body) > Len(snap.body)

\* C2: a second canonicalizeOperands, on the descriptor the first call left,
\* changes nothing and returns the instruction the first call returned.
C2_Idempotent ==
    /\ pc = "recanonical" =>
          ir = snap.ir /\ body = snap.body /\ ret = snap.inst /\ info = snap.info
    /\ ~(IsBuiltin /\ pc \in UBOutcomes /\ ret # NullValue)

\* the input wrapped in two single-operand structs was rewritten by the
\* second call as well
C2_NestedRewrittenTwice ==
    /\ IsBuiltin /\ pc = "recanonical"
    /\ arg.inputs = <<"nested">>
    /\ ret # snap.inst

(***************************************************************************)
(* The instruction canonicalizeOperands returned, read off the IR.         *)
(***************************************************************************)
\* canonicalizeOperands returned on the descriptor that validated
Canonicalized == IsBuiltin /\ pc = "canonical"

\* the positions of the attribute operands of the instruction returned
AttrPositions == (info.numInputs + 1)..Len(ir[ret].ops)

\* the instruction that defines operand k of the instruction returned
OperandDef(k) == ir[ir[ret].ops[k]]

LiteralKinds == {"integer_literal", "float_literal", "string_literal", "metatype"}

\* operand k is an element of a run: the role entries from a marker entry up
\* to k are element entries, and the operand of the marker is a type tag
InMarkerRun(k) ==
    \E m \in AttrPositions :
        /\ m < k
        /\ info.attributes[m - info.numInputs].second \in {"Tensor", "Shape", "Array"}
        /\ OperandDef(m).kind = "metatype"
        /\ \A j \in (m + 1)..k :
              info.attributes[j - info.numInputs].second = "ArrayElement"

\* C11: every attribute operand of the instruction canonicalizeOperands
\* returns for a validated descriptor is an integer, floating-point or string
\* literal, a metatype, or an element of a marker run, and none is an
\* aggregate.
C11_AttributeOperandsAreConstants ==
    Canonicalized =>
        \A k \in AttrPositions :
            /\ OperandDef(k).kind \in LiteralKinds \/ InMarkerRun(k)
            /\ OperandDef(k).kind # "struct"

\* the array of arrays validated, and the instruction returned has the inner
\* array, a struct, as an attribute operand
C11_NestedArrayOperand ==
    /\ Canonicalized
    /\ SegmentsOf(arg) = <<(<<"r", "o", "w", "s">>)>>
    /\ Len(ir[ret].ops) = info.numInputs + 2
    /\ OperandDef(info.numInputs + 1).kind = "metatype"
    /\ OperandDef(info.numInputs + 2).kind = "struct"

(***************************************************************************)
(* Input legality in decode.                                               *)
(***************************************************************************)
\* the inputs drawn that are no TensorHandle and do not resolve to a scalar of
\* a type TensorFlow has a dtype for: the raw pointer, and the address of a
\* stack slot nothing is stored to
IllegalInputs == {k \in 1..Len(arg.inputs) : arg.inputs[k] \in {"pointer", "unstored"}}

\* decode was called and did not build a descriptor
DecodeFailed == pc # "ready" /\ info = NoInfo

\* C12: an op with an input that is no TensorHandle and does not resolve to
\* a scalar of a recognized type, an unresolvable address included, is
\* rejected by decode with one malformed-descriptor diagnostic that names a
\* type, and with no other failure; decode succeeds only if every input is
\* legal.
C12_IllegalInputDiagnosed ==
    (IsBuiltin /\ pc # "ready") =>
        IF IllegalInputs = {}
        THEN DecodeFailed => (diags # <<>> /\ diags[1].problem # "operand has unrecognized type")
        ELSE /\ pc = "rejected"
             /\ Len(diags) = 1
             /\ diags[1].id = "tfop_invalid_tfop"
             /\ diags[1].problem = "operand has unrecognized type"
             /\ diags[1].ty # ""

\* decode on an op whose one input is the address of a stack slot without a
\* store: no diagnostic, no descriptor, and no return of none either
C12_UnresolvedAddressInput ==
    /\ IsBuiltin
    /\ arg.inputs = <<"unstored">>
    /\ pc \in UBOutcomes
    /\ info = NoInfo
    /\ diags = <<>>

(***************************************************************************)
(* The error string of checkAttributeConstants.                            *)
(***************************************************************************)
\* the attribute name of a segment: the text before its first '$'
AttrNameOf(seg) == IF HasDollar(seg) THEN SubSeq(seg, 1, find(seg, "$")) ELSE seg

\* the values of the catalog that are no constant: an argument, and an array
\* with an element or a count that is an argument
NonConstantValues == {1, 2, 8, 9}

\* the segment value$tensor with an array of two constants
TensorsOfTwo == {6}

\* the segments value$shape, with the dimensions [2] and [3]
ValueShapes == {7, 21}

\* the shapes that do not hold two scalars
ShapesNotOfTwo == {21}

\* the segment dims$shape
OtherShapes == {20}

\* entry k of the op drawn is a tensor array with its shape entry behind it
HasShapeBehind(k) ==
    /\ arg.attrs[k] \in TensorsOfTwo
    /\ k < Len(arg.attrs)
    /\ arg.attrs[k + 1] \in ValueShapes

\* entry k is the shape entry of the tensor array before it
IsShapeBehind(k) == k > 1 /\ HasShapeBehind(k - 1)

\* entry k of the op drawn violates the requirement of its role: a value that
\* is no constant; a tensor array without its shape, or with a shape of
\* another number of scalars; a Shape entry of its own whose operand is an
\* array and no type tag
EntryViolates(k) ==
    \/ arg.attrs[k] \in NonConstantValues
    \/ arg.attrs[k] \in TensorsOfTwo /\ ~HasShapeBehind(k)
    \/ HasShapeBehind(k) /\ arg.attrs[k + 1] \in ShapesNotOfTwo
    \/ arg.attrs[k] \in ValueShapes \cup OtherShapes /\ ~IsShapeBehind(k)

ViolatingEntries == {k \in 1..Len(arg.attrs) : EntryViolates(k)}

FirstViolating == CHOOSE k \in ViolatingEntries : \A j \in ViolatingEntries : k <= j

\* checkAttributeConstants returned on the descriptor of a builtin
Validated == IsBuiltin /\ pc = "checked"

\* C13: checkAttributeConstants returns the empty string iff no entry
\* violates the requirement of its role, and otherwise the error of the first
\* violating entry in operand order, a string that holds the name of that
\* attribute.
C13_FirstViolationNamed ==
    Validated =>
        /\ err = NoError <=> ViolatingEntries = {}
        /\ err # NoError =>
              err.names = <<AttrNameOf(SegmentsOf(arg)[FirstViolating])>>

\* the tensor array of two scalars with the shape [3] behind it: the error
\* is the one of the counts, and holds no attribute name
C13_CountErrorUnnamed ==
    /\ Validated
    /\ arg.attrs = <<6, 21>>
    /\ err = CountError(<<3>>, <<2>>)
    /\ err.names = <<>>

(***************************************************************************)
(* The String chain of getAttrOperand.                                     *)
(***************************************************************************)
\* getAttrOperand was applied to a value of type String
StringResolved == arg.fam = "string" /\ pc # "value" /\ res.op = "getAttrOperand"

\* every link of the chain drawn is one of the set
AllLinksIn(links) == \A k \in 1..Len(arg.links) : arg.links[k] \in links

\* the result is the UTF-8 string_literal at the end of the chain
IsUtf8Literal(v) ==
    /\ v # NullValue
    /\ ir[v].kind = "string_literal"
    /\ ir[v].name = <<"utf8">>

\* the links the loop follows: with a struct of one operand only, and with a
\* struct of any number of operands but none
OneOperandLinks == {"struct", "enum", "cast", "And", "Or", "ZExtOrBitCast", "PtrToInt"}

FollowedLinks == OneOperandLinks \cup {"struct2"}

\* the loop comes to a struct without operands or an enum without payload
ChainAsserts ==
    \E k \in 1..Len(arg.links) :
        /\ arg.links[k] \in {"struct0", "enum0"}
        /\ \A j \in 1..(k - 1) : arg.links[j] \in FollowedLinks

\* C14 as stated: getAttrOperand on a String value is non-null only when
\* the chain of one-operand structs, enum payloads, bitwise casts and
\* And/Or/ZExtOrBitCast/PtrToInt builtins reaches a UTF-8 string_literal; any
\* other shape, a struct of more than one operand included, gives null.
C14_StringFailsClosed ==
    StringResolved =>
        /\ pc = "resolved"
        /\ IF arg.links # <<>> /\ AllLinksIn(OneOperandLinks) /\ arg.wrap = "utf8"
           THEN IsUtf8Literal(res.v)
           ELSE res.v = NullValue

\* C14 as the code has it: a struct of one or more operands is followed to
\* its first operand; unless the loop comes to a struct without operands or
\* an enum without payload, getAttrOperand returns the UTF-8 string_literal
\* the chain reaches, and null for any other shape.
C14_StringChainFirstOperand ==
    (StringResolved /\ ~ChainAsserts) =>
        /\ pc = "resolved"
        /\ IF arg.links # <<>> /\ AllLinksIn(FollowedLinks) /\ arg.wrap = "utf8"
           THEN IsUtf8Literal(res.v)
           ELSE res.v = NullValue

\* a String struct over a struct of two operands over a UTF-8 literal was
\* resolved to the literal
C14_Witness ==
    /\ StringResolved
    /\ arg.links = <<"struct", "struct2">>
    /\ arg.wrap = "utf8"
    /\ pc = "resolved"
    /\ IsUtf8Literal(res.v)

(***************************************************************************)
(* getScalarOperand on wrappers and on addresses.                          *)
(***************************************************************************)
\* getScalarOperand returned on a value of the family
ScalarResolved(fam) == arg.fam = fam /\ pc = "resolved" /\ res.op = "getScalarOperand"

IsWrapper(v) == ir[v].kind = "struct" /\ Len(ir[v].ops) = 1

\* the innermost value under v that is no single-operand struct
RECURSIVE Innermost(_)
Innermost(v) == IF IsWrapper(v) THEN Innermost(ir[v].ops[1]) ELSE v

\* C15: for a value that is no address inside k >= 1 nested single-operand
\* structs, getScalarOperand returns the innermost value that is no
\* single-operand struct, for every k; a value that is no such wrapper is
\* returned unchanged.
C15_UnwrapsEveryLayer ==
    ScalarResolved("wrapped") => res.v = Innermost(inst)

\* an integer literal inside two wrappers: the result is the inner wrapper
C15_OneLayerStripped ==
    /\ ScalarResolved("wrapped")
    /\ arg.n = 2
    /\ arg.wrap = "int"
    /\ res.v = ir[inst].ops[1]
    /\ IsWrapper(res.v)
    /\ Innermost(inst) # res.v

\* the stores to the address drawn, and the uses of it that write it without
\* being a store
StoresTo(v) == {u \in Range(body) : ir[u].kind = "store" /\ ir[u].ops[2] = v}

OtherWritersOf(v) == {u \in Range(body) : ir[u].kind = "copy_addr" /\ ir[u].ops[2] = v}

TheStoreTo(v) == CHOOSE u \in StoresTo(v) : TRUE

\* C16: for an address, getScalarOperand returns a value only when the
\* address is an alloc_stack whose uses hold exactly one store to it and no
\* other use that can write it, and then it returns getScalarOperand of the
\* value stored; with no store, with two or more stores, with another writing
\* use, or for an address that is no alloc_stack, the result is null.
C16_SingleStoreOnly ==
    ScalarResolved("stack") =>
        IF /\ ir[inst].kind = "alloc_stack"
           /\ Cardinality(StoresTo(inst)) = 1
           /\ OtherWritersOf(inst) = {}
        THEN res.v = getScalarOperand(ir, body, ir[TheStoreTo(inst)].ops[1])
        ELSE res.v = NullValue

\* a stack slot with one store and a copy_addr into it was resolved to the
\* value stored
C16_OtherWriterIgnored ==
    /\ ScalarResolved("stack")
    /\ arg.n = 1
    /\ arg.links = <<"copy_addr">>
    /\ OtherWritersOf(inst) # {}
    /\ res.v # NullValue
    /\ ir[res.v].kind = "integer_literal"

(***************************************************************************)
(* getAttrOperand on a struct that is no String.                           *)
(***************************************************************************)
\* getAttrOperand returned on a value that a struct defines and that is no
\* String
StructResolved ==
    /\ pc = "resolved" /\ res.op = "getAttrOperand"
    /\ ir[inst].kind = "struct"
    /\ ir[inst].ty.name # "String"

\* the kinds of element that resolve to a constant: a literal of at most 64
\* bits, alone or inside one struct, and an array of constants
ConstantElemKinds == {"lit", "Int", "nested"}

\* every element of the array drawn resolves to a constant (the elements of
\* the arrays of the other families are integer literals of 64 bits)
ElementsConstant ==
    arg.fam = "elems" => \A k \in 1..Len(arg.links) : arg.links[k] \in ConstantElemKinds

\* C17: for a value that a struct defines and that is no String,
\* getAttrOperand returns that struct iff decodeArrayElements succeeds on it
\* and every element resolves to a constant; if the array decodes and some
\* element does not resolve, the result is null.
C17_StructIsConstantArray ==
    StructResolved =>
        \E d \in {decodeArrayElements(ir, body, inst)} :
            /\ res.v = inst <=> (d.ok /\ ElementsConstant)
            /\ (d.ok /\ ~ElementsConstant) => res.v = NullValue
            /\ arg.fam = "elems" => d.ok /\ Len(d.elements) = arg.n

\* the array literal of an Int and of an array of constants was resolved to
\* its struct
C17_Witness ==
    /\ StructResolved
    /\ arg.fam = "elems"
    /\ arg.links = <<"Int", "nested">>
    /\ res.v = inst
    /\ ir[inst].ty.name = "Array"

(***************************************************************************)
(* The shape entry behind a tensor array.                                  *)
(***************************************************************************)
\* C18: a Tensor entry whose operand is a constant array must have the
\* Shape entry of the same name right behind it, and that entry is consumed
\* with it and not validated as a Shape entry of its own; a tensor array with
\* no entry, an entry of another name or an entry of another role behind it
\* is refused with "must be followed by a shape".  (The exception for an
\* apply instruction is never taken: the instruction of a descriptor is a
\* builtin.)
C18_TensorShapePairing ==
    Validated =>
        /\ ir[info.inst].kind = "builtin"
        /\ ViolatingEntries = {} => err = NoError
        /\ ViolatingEntries # {} =>
              \E k \in {FirstViolating} :
                  /\ (arg.attrs[k] \in TensorsOfTwo /\ ~HasShapeBehind(k)) =>
                         err = AttrError("must be followed by a shape", VALUE)
                  /\ HasShapeBehind(k) => err = CountError(<<3>>, <<2>>)
                  /\ arg.attrs[k] \in ValueShapes \cup OtherShapes =>
                         err = AttrError(
                             "requires a constant integer or floating point constant",
                             AttrNameOf(SegmentsOf(arg)[k]))

\* the tensor array with its shape behind it validated: the shape entry was
\* not checked as an entry of its own
C18_Witness ==
    /\ Validated
    /\ arg.attrs = <<6, 7>>
    /\ info.attributes = <<AttributeEntry(VALUE, "Tensor"), AttributeEntry(VALUE, "Shape")>>
    /\ err = NoError

(***************************************************************************)
(* The operands and the name of the instruction canonicalizeOperands       *)
(* returns, against the values the op was drawn with.                      *)
(***************************************************************************)
\* what is compared of an operand: the kind of the instruction that defines
\* it, its literal value, and for a metatype the type it stands for
OperandDesc(kind, val, elt) == [kind |-> kind, val |-> val, elt |-> elt]

DescOf(v) ==
    OperandDesc(ir[v].kind, ir[v].val,
                IF ir[v].kind = "metatype" THEN ir[v].ty.elt ELSE "")

IntDesc(n) == OperandDesc("integer_literal", <<n>>, "")

\* the values of the catalog that are arrays of constants, with their
\* element type and their resolved elements in index order
ConstantArrays == {6, 7, 10, 11, 12, 18, 19}

ArrayElementType(c) ==
    CASE c \in {6, 7, 10, 11} -> "Int"
      [] c \in {12, 19} -> "String"
      [] c = 18 -> "Array"

ArrayElementDescs(c) ==
    CASE c \in {6, 10, 11} -> <<IntDesc(1), IntDesc(2)>>
      [] c = 7 -> <<IntDesc(2)>>
      [] c \in {12, 19} -> <<OperandDesc("string_literal", <<>>, "")>>
      [] c = 18 -> <<OperandDesc("struct", <<>>, "")>>

\* the operands an attribute of the catalog stands for after the call: the
\* marker and the elements of an array, the literal of a scalar
ExpectedOperands(c) ==
    IF c \in ConstantArrays
    THEN <<OperandDesc("metatype", <<>>, ArrayElementType(c))>> \o ArrayElementDescs(c)
    ELSE IF c = 17 THEN <<OperandDesc("float_literal", <<1>>, "")>>
    ELSE <<IntDesc(1)>>

\* n times the segment ,$elt
RECURSIVE EltSegments(_)
EltSegments(n) == IF n = 0 THEN <<>> ELSE <<",", "$", "e", "l", "t">> \o EltSegments(n - 1)

\* the text of the name an attribute of the catalog stands for after the
\* call: an array has the suffix of its role, $array when it has none, and
\* one $elt segment per element
ExpectedSegment(c) ==
    IF c \in ConstantArrays
    THEN <<",">> \o AttrNameOf(AttrCatalog[c].seg) \o <<"$">>
             \o (IF HasDollar(AttrCatalog[c].seg) THEN SuffixOf(AttrCatalog[c].seg)
                 ELSE <<"a", "r", "r", "a", "y">>)
             \o EltSegments(Len(ArrayElementDescs(c)))
    ELSE <<",">> \o AttrCatalog[c].seg

RECURSIVE AllExpectedOperands(_)
AllExpectedOperands(attrs) ==
    IF attrs = <<>> THEN <<>>
    ELSE ExpectedOperands(Head(attrs)) \o AllExpectedOperands(Tail(attrs))

RECURSIVE AllExpectedSegments(_)
AllExpectedSegments(attrs) ==
    IF attrs = <<>> THEN <<>>
    ELSE ExpectedSegment(Head(attrs)) \o AllExpectedSegments(Tail(attrs))

\* the kind of the instruction an input drawn resolves to
InputKindAfter(kind) ==
    CASE kind = "handle" -> "argument"
      [] kind = "nested" -> "struct"
      [] kind \in {"int", "stack"} -> "integer_literal"

CanonicalizeFaulted ==
    /\ IsBuiltin /\ pc \in UBOutcomes
    /\ err = NoError /\ info # NoInfo /\ ret = NullValue

\* the position in the function of the instruction v
PlaceOf(v) == CHOOSE k \in 1..Len(body) : body[k] = v

\* operand k of the instruction returned was created by the call
CreatedByCall(k) == ir[ret].ops[k] > Len(snap.ir)

\* C20: after canonicalizeOperands on a validated descriptor every operand
\* of the instruction returned is defined in the function that holds the
\* instruction; an element of a static initializer is replaced by a new
\* integer or floating-point literal of its type and value, inserted before
\* the instruction; and the call returns for every kind of array element the
\* validator accepts (the fault for an unknown instruction is not reached).
C20_ForeignElementsRematerialized ==
    /\ ~CanonicalizeFaulted
    /\ Canonicalized =>
          \A k \in 1..Len(ir[ret].ops) :
              /\ OperandDef(k).fn = ir[ret].fn
              /\ ir[ret].ops[k] \in Range(body)
              /\ PlaceOf(ir[ret].ops[k]) < PlaceOf(ret)
              /\ (CreatedByCall(k) /\ OperandDef(k).kind # "metatype") =>
                     /\ OperandDef(k).kind \in {"integer_literal", "float_literal"}
                     /\ \E e \in 1..Len(snap.ir) :
                           /\ snap.ir[e].fn = "g"
                           /\ snap.ir[e].kind = OperandDef(k).kind
                           /\ snap.ir[e].ty = OperandDef(k).ty
                           /\ snap.ir[e].val = OperandDef(k).val

\* the op whose attribute is the [String] array of a static initializer
\* validated, and canonicalizeOperands came to the fault for its element
C20_StringElementFault ==
    /\ CanonicalizeFaulted
    /\ arg.inputs = <<>>
    /\ arg.attrs = <<19>>
    /\ info.attributes = <<AttributeEntry(<<"n", "a", "m", "e", "s">>, "Normal")>>
    /\ \E e \in 1..Len(ir) : ir[e].fn = "g" /\ ir[e].kind = "string_literal"

(***************************************************************************)
(* The rewrite of canonicalizeOperands.                                    *)
(***************************************************************************)
\* canonicalizeOperands returned, from the first call or from the second
Returned == IsBuiltin /\ pc \in {"canonical", "recanonical"}

\* the instruction that the call was made on, as it was before the call
Original == snap.ir[snap.inst]

\* the call returned an instruction with another name or other operands
Rewritten ==
    /\ Returned
    /\ ir[ret].name # Original.name \/ ir[ret].ops # Original.ops

\* the instructions of the function that used the original before the call
FormerUsers == {u \in Range(snap.body) : snap.inst \in Range(snap.ir[u].ops)}

\* C21: when canonicalizeOperands produces a name or an operand list that
\* differs from the original, then on return the original instruction is no
\* longer in the function and has no remaining use, every former user of its
\* result uses the result of the new instruction in its place, the new
\* instruction has the location and the result type of the original, decode
\* of the new instruction succeeds, and the descriptor refers to the new
\* instruction with numInputs + the number of attribute entries equal to its
\* operand count.
C21_RewriteProtocol ==
    Rewritten =>
        /\ ret # snap.inst
        /\ snap.inst \notin Range(body)
        /\ \A u \in Range(body) : snap.inst \notin Range(ir[u].ops)
        /\ \A u \in FormerUsers :
               /\ u \in Range(body)
               /\ \A k \in 1..Len(snap.ir[u].ops) :
                      ir[u].ops[k] = IF snap.ir[u].ops[k] = snap.inst THEN ret
                                     ELSE snap.ir[u].ops[k]
        /\ ret \in Range(body)
        /\ ir[ret].kind = "builtin"
        /\ ir[ret].loc = Original.loc
        /\ ir[ret].ty = Original.ty
        /\ \E newResult \in {decode(ir, body, ret)} :
               newResult.ok /\ info = newResult.info
        /\ info.inst = ret
        /\ info.numInputs + Len(info.attributes) = Len(ir[ret].ops)

\* an op with an array attribute and two users was rewritten
C21_Witness ==
    /\ Rewritten
    /\ pc = "canonical"
    /\ Cardinality(FormerUsers) = MaxUsers
    /\ Len(ir[ret].ops) > Len(Original.ops)
    /\ Original.loc = "op"

(***************************************************************************)
(* The order of the role entries of a descriptor.                          *)
(***************************************************************************)
MarkerKinds == {"Array", "Shape", "Tensor"}

\* entry k of the descriptor continues a run of elements that a marker
\* entry of the same attribute name starts
FollowsMarker(k) ==
    \E m \in 1..(k - 1) :
        /\ info.attributes[m].second \in MarkerKinds
        /\ info.attributes[m].first = info.attributes[k].first
        /\ \A j \in (m + 1)..k : info.attributes[j].second = "ArrayElement"

\* C22: in every descriptor that decode returns, and so in every descriptor
\* that checkAttributeConstants accepts, each ArrayElement entry is preceded,
\* with only ArrayElement entries in between, by an Array, Shape or Tensor
\* entry of the same attribute name; no role list that starts with an
\* ArrayElement entry or has one after an entry that is no marker is
\* accepted.
C22_ElementsFollowMarker ==
    (IsBuiltin /\ info # NoInfo) =>
        \A k \in 1..Len(info.attributes) :
            info.attributes[k].second = "ArrayElement" => FollowsMarker(k)

\* decode returned a descriptor whose first entry is an ArrayElement entry,
\* and checkAttributeConstants returned the empty string for it
C22_LeadingElementAccepted ==
    /\ Validated
    /\ err = NoError
    /\ info.attributes # <<>>
    /\ info.attributes[1].second = "ArrayElement"
    /\ info.attributes[1].first = <<"a">>
    /\ \A k \in 1..Len(info.attributes) : info.attributes[k].second \notin MarkerKinds

(***************************************************************************)
(* The canonical form under checkAttributeConstants.                       *)
(***************************************************************************)
\* C23: for every descriptor for which checkAttributeConstants returned the
\* empty string, checkAttributeConstants returns the empty string for the
\* descriptor of the instruction that canonicalizeOperands returns, whatever
\* the kind of the array elements and the element type of the arrays.
C23_CanonicalStaysValid ==
    Canonicalized => checkAttributeConstants(ir, body, info) = NoError

\* an array of String literals was expanded: the marker is the metatype of a
\* type without a dtype, the element a string literal, and
\* checkAttributeConstants rejects the descriptor returned
C23_StringArrayRejected ==
    /\ Canonicalized
    /\ \E k \in AttrPositions \ {Len(ir[ret].ops)} :
           /\ info.attributes[k - info.numInputs].second = "Array"
           /\ OperandDef(k).kind = "metatype"
           /\ convertSwiftTypeToTF(OperandDef(k).ty.elt) = 0
           /\ info.attributes[k + 1 - info.numInputs].second = "ArrayElement"
           /\ OperandDef(k + 1).kind = "string_literal"
    /\ \E e \in {checkAttributeConstants(ir, body, info)} :
           /\ e # NoError
           /\ e.text = "requires a constant argument"

(***************************************************************************)
(* The scalar count of a shape in a uint64_t.                              *)
(***************************************************************************)
\* decodeTensorFromScalars promoted the call to a Const op
Promoted ==
    /\ arg.fam = "apply"
    /\ arg.fn = FROM_SCALARS
    /\ pc = "applied"
    /\ ret # snap.inst
    /\ ir[ret].kind = "builtin"

\* C24: the check of a tensor against its shape accepts the shape only when
\* the mathematical product of the dimensions equals the number of scalars;
\* the product taken in a 64-bit unsigned accumulator never makes a shape
\* whose true product differs from the scalar count compare equal to it.
C24_NoFalseAcceptance ==
    Promoted =>
        /\ arg.dims.kind = "ints"
        /\ Product(arg.dims.dims) = FromInt(arg.scalars.n)

\* a call with no scalars and the shape [2^32, 2^32], whose product 2^64 is 0
\* in a uint64_t, was promoted without a diagnostic
C24_ApplyWrapAccepted ==
    /\ Promoted
    /\ diags = <<>>
    /\ arg.scalars.n = 0
    /\ arg.dims.dims = <<Pow2(32), Pow2(32)>>
    /\ Product(arg.dims.dims) # FromInt(arg.scalars.n)
    /\ Wrap64(Product(arg.dims.dims)) = FromInt(arg.scalars.n)

====
